---- MODULE Spec2Model ----
(***************************************************************************)
(* A model of the grocery price scraper's normalization and matching       *)
(* engine (ProductNormalizer, PriceComparator).                            *)
(*                                                                         *)
(* Product dictionaries are functions from the keys that are present to    *)
(* their values; d.get(k, default) is Get(d, k, default).  Text fields     *)
(* (names, brands) are sequences of one-character strings.  Floating-point *)
(* numbers are modelled as exact rationals [n |-> numerator, d |->         *)
(* denominator] in lowest terms with d > 0, so rounding in the last bit of *)
(* a float is outside that part of the model; calculate_statistics is      *)
(* modelled a second time over IEEE 754 binary64 values, where the         *)
(* rounding of its sum and division shows in the result.                   *)
(*                                                                         *)
(* The fields of a raw listing may hold text, a number or None, so the     *)
(* normalizer's dictionaries hold tagged values: Str(characters),          *)
(* Float(rational) and None.  A call that leaves by an exception is the    *)
(* outcome Raise(error), a call that returns v is Ok(v).                   *)
(***************************************************************************)
EXTENDS Integers, Sequences, FiniteSets

VARIABLES
    \* PriceComparator.find_matches
    target_product,       \* the reference listing passed in
    candidate_products,   \* the candidate list passed in
    fm_config,            \* the comparator's configuration
    fm_matches,           \* the list returned
    fm_pc,                \* "ready" before the call, "returned" after it
    \* PriceComparator.calculate_price_difference
    farm2bag_product,     \* the reference listing passed in
    competitor_product,   \* the matched candidate passed in
    pd_result,            \* the comparison record returned
    pd_pc,
    \* PriceComparator.calculate_statistics
    st_matches,           \* the comparison records passed in
    st_result,            \* the statistics returned
    st_pc,
    \* PriceComparator.compare_products
    farm2bag_products,    \* the reference listings passed in
    competitor_sites,     \* the keys of the competitor dict, in its order
    competitor_products,  \* the competitor dict: site -> listings
    cp_config,
    cp_results,           \* the result dictionary returned
    cp_pc,
    \* compare_products sharded across workers
    sh_pool,              \* the tagged candidates of all sites
    sh_task,              \* worker -> position of the item it holds, or 0
    sh_found,             \* worker -> <<what find_matches returned>>, or <<>>
    sh_slot,              \* position -> <<outcome>>, <<>> while pending
    sh_done,              \* the positions in the order they were finished
    sh_results,           \* the result dictionary put together
    sh_pc,
    \* calculate_statistics on binary64 percentage differences
    fs_matches,           \* the comparison records passed in
    fs_compensated,       \* whether the interpreter's sum() is compensated
    fs_result,            \* the statistics returned
    fs_pc,
    \* PriceComparator.analyze_pricing
    ap_matches,           \* the comparison records passed in
    ap_result,            \* the analysis returned
    ap_pc,
    \* ProductNormalizer
    rules,                \* the rules the normalizer was constructed with
    raw_product,          \* the raw listing passed to normalize_product
    np_result,            \* the normalized listing returned
    np_pc,                \* "ready", then "returned" or "raised"
    raw_products,         \* the caller's list passed to normalize_batch
    nb_result,            \* the list returned
    nb_pc,
    \* one method of ProductNormalizer called on its own
    nf_rules,             \* the rules the normalizer was constructed with
    nf_method,            \* the method called
    nf_value,             \* its argument: a name, a brand, a category or a size
    nf_unit,              \* the unit handed to extract_size_value
    nf_text,              \* the text returned
    nf_size,              \* the number returned by extract_size_value
    nf_pc,                \* "ready", then "returned" or "raised"
    \* Database and PriceComparisonRunner._store_data
    db_products,          \* the rows of the products table, in insert order
    db_snapshots,         \* the daily_snapshots table: date -> row
    db_comparisons,       \* the number of rows of the price_comparisons table
    sd_farm2bag,          \* the reference listings handed to _store_data
    sd_sites,             \* the sites of the competitor dictionary, in its order
    sd_competitors,       \* the listings of each site
    sd_matches,           \* the number of comparison records handed in
    sd_calls,             \* the store_products calls of the run made so far
    sd_pc,                \* "ready", "storing", "comparisons", then "stored"
    \* ScraperService
    runner,               \* "runner", or "None" when the scraper is not installed
    active_tasks,         \* task id -> the in-memory task information
    task_pc,              \* task id -> where the task's coroutine stands
    scraper_tasks,        \* the result documents in the task collection
    task_inserts,         \* every document insert_one has written, in order
    ss_response,          \* what the last start_scraping call gave back
    \* SchedulerService
    scraper_schedules,    \* the schedule collection: schedule id -> document
    scheduler_jobs,       \* the ids of the jobs in the AsyncIOScheduler
    active_schedules,     \* the ids of the schedules kept in memory
    schedule_calls,       \* client -> the call it has in progress
    schedules_created,    \* how many schedule ids have been drawn
    calls_overlapped,     \* a call began while another was in progress
    call_raised           \* a call ended with an exception

matcherVars == <<target_product, candidate_products, fm_config, fm_matches, fm_pc>>

differVars == <<farm2bag_product, competitor_product, pd_result, pd_pc>>

statisticsVars == <<st_matches, st_result, st_pc>>

compareVars ==
    <<farm2bag_products, competitor_sites, competitor_products, cp_config,
      cp_results, cp_pc>>

normalizerVars ==
    <<rules, raw_product, np_result, np_pc, raw_products, nb_result, nb_pc>>

shardedVars ==
    <<sh_pool, sh_task, sh_found, sh_slot, sh_done, sh_results, sh_pc>>

floatStatisticsVars == <<fs_matches, fs_compensated, fs_result, fs_pc>>

pricingVars == <<ap_matches, ap_result, ap_pc>>

fieldVars == <<nf_rules, nf_method, nf_value, nf_unit, nf_text, nf_size, nf_pc>>

storeVars ==
    <<db_products, db_snapshots, db_comparisons, sd_farm2bag, sd_sites,
      sd_competitors, sd_matches, sd_calls, sd_pc>>

scraperVars ==
    <<runner, active_tasks, task_pc, scraper_tasks, task_inserts, ss_response>>

schedulerVars ==
    <<scraper_schedules, scheduler_jobs, active_schedules, schedule_calls,
      schedules_created, calls_overlapped, call_raised>>

vars ==
    <<matcherVars, differVars, statisticsVars, compareVars, shardedVars,
      floatStatisticsVars, pricingVars, normalizerVars, fieldVars,
      storeVars, scraperVars, schedulerVars>>

-----------------------------------------------------------------------------
(* Dictionaries *)

Get(d, k, default) == IF k \in DOMAIN d THEN d[k] ELSE default

Put(d, k, v) == [x \in (DOMAIN d) \cup {k} |-> IF x = k THEN v ELSE d[x]]

Range(s) == {s[i] : i \in DOMAIN s}

\* the dictionary d after d.update(e)
Update(d, e) ==
    [k \in (DOMAIN d) \cup (DOMAIN e) |-> IF k \in DOMAIN e THEN e[k] ELSE d[k]]

\* the dictionary written {key1: value1, key2: value2, ...}
Dict(items) ==
    [k \in {items[i][1] : i \in DOMAIN items} |->
        items[CHOOSE i \in DOMAIN items : items[i][1] = k][2]]

\* all lists over S of length at most n
BSeq(S, n) == UNION {[1..k -> S] : k \in 0..n}

-----------------------------------------------------------------------------
(* Exact arithmetic on the numbers the code holds as floats *)

Abs(x) == IF x < 0 THEN -x ELSE x

Max(x, y) == IF x >= y THEN x ELSE y

RECURSIVE GCD(_, _)
GCD(a, b) == IF b = 0 THEN a ELSE GCD(b, a % b)

Rat(n, d) ==
    LET g == GCD(Abs(n), Abs(d))
        s == IF d < 0 THEN -1 ELSE 1
    IN  [n |-> (s * n) \div g, d |-> (s * d) \div g]

RInt(i) == [n |-> i, d |-> 1]

RAdd(x, y) == Rat(x.n * y.d + y.n * x.d, x.d * y.d)

RSub(x, y) == Rat(x.n * y.d - y.n * x.d, x.d * y.d)

RMul(x, y) == Rat(x.n * y.n, x.d * y.d)

\* x / y for y # 0
RDiv(x, y) == Rat(x.n * y.d, x.d * y.n)

RLt(x, y) == x.n * y.d < y.n * x.d

RLeq(x, y) == x.n * y.d <= y.n * x.d

RGeq(x, y) == RLeq(y, x)

-----------------------------------------------------------------------------
(* rapidfuzz.fuzz.ratio: the normalized InDel similarity, 0..100 *)

RECURSIVE BuildRow(_, _, _, _)
BuildRow(prev, ch, b, acc) ==
    IF Len(acc) = Len(b) + 1 THEN acc
    ELSE LET j == Len(acc)
         IN  BuildRow(prev, ch, b,
                      Append(acc, IF ch = b[j] THEN prev[j] + 1
                                  ELSE Max(prev[j + 1], acc[j])))

RECURSIVE LcsRows(_, _, _)
LcsRows(a, b, prev) ==
    IF a = <<>> THEN prev[Len(b) + 1]
    ELSE LET row == BuildRow(prev, Head(a), b, <<0>>)
         IN  \* the test makes TLC evaluate the row before it descends
             IF Len(row) = Len(prev) THEN LcsRows(Tail(a), b, row) ELSE 0

\* length of the longest common subsequence of a and b
LcsLength(a, b) == LcsRows(a, b, [j \in 1..(Len(b) + 1) |-> 0])

IndelRatio(s1, s2) ==
    LET maximum == Len(s1) + Len(s2)
        dist    == maximum - 2 * LcsLength(s1, s2)
    IN  IF maximum = 0 THEN RInt(100)
        ELSE RSub(RInt(100), Rat(100 * dist, maximum))

\* the names and brands of the listings below
Carrot ==
    <<"o", "r", "g", "a", "n", "i", "c", " ", "b", "a", "b", "y", " ",
      "c", "a", "r", "r", "o", "t">>

\* 21 characters, 19 of them shared with Carrot: fuzz.ratio = 95
CarrotPack == Carrot \o <<" ", "2">>

Milk == <<"m", "i", "l", "k">>

Farm2bag == <<"f", "2", "b">>

\* fuzz.ratio(Farm2bag, Bigbasket) = 40
Bigbasket == <<"b", "b">>

\* fuzz.ratio(Farm2bag, Jiomart) = 0
Jiomart == <<"j", "i", "o">>

Texts == {<<>>, Carrot, CarrotPack, Milk, Farm2bag, Bigbasket, Jiomart}

\* IndelRatio of the texts above, evaluated once: the pairs <<texts, ratio>>
RatioTable == {<<p, IndelRatio(p[1], p[2])>> : p \in Texts \X Texts}

fuzz_ratio(s1, s2) ==
    IF <<s1, s2>> \in Texts \X Texts
    THEN (CHOOSE entry \in RatioTable : entry[1] = <<s1, s2>>)[2]
    ELSE IndelRatio(s1, s2)

-----------------------------------------------------------------------------
(* PriceComparator: configuration *)

\* the configuration of the unit tests (test_comparator.py, sample_config)
TestConfig ==
    [matching_threshold |-> RInt(75), weight_name |-> Rat(7, 10),
     weight_brand |-> Rat(2, 10), weight_category |-> Rat(1, 10),
     exact_match_bonus |-> RInt(10)]

\* the defaults PriceComparator.__init__ falls back to
DefaultConfig ==
    [matching_threshold |-> RInt(80), weight_name |-> Rat(7, 10),
     weight_brand |-> Rat(2, 10), weight_category |-> Rat(1, 10),
     exact_match_bonus |-> RInt(10)]

\* weights that do not sum to 1
HeavyConfig ==
    [matching_threshold |-> RInt(100), weight_name |-> RInt(1),
     weight_brand |-> Rat(1, 2), weight_category |-> Rat(1, 2),
     exact_match_bonus |-> RInt(5)]

Configs == {TestConfig, DefaultConfig, HeavyConfig}

-----------------------------------------------------------------------------
(* PriceComparator.find_matches *)

\* the keys find_matches adds to the copy of a retained candidate
AnnotationKeys ==
    {"similarity_score", "name_similarity", "brand_similarity", "category_match"}

NameOf(p) == Get(p, "normalized_name", <<>>)

BrandOf(p) == Get(p, "normalized_brand", <<>>)

CategoryOf(p) == Get(p, "normalized_category", "")

NameSimilarity(target, candidate) == fuzz_ratio(NameOf(target), NameOf(candidate))

\* the ratio of the two brands whether or not one of them is empty
BrandRatio(target, candidate) == fuzz_ratio(BrandOf(target), BrandOf(candidate))

BrandSimilarity(target, candidate) ==
    IF BrandOf(target) # <<>> /\ BrandOf(candidate) # <<>>
    THEN fuzz_ratio(BrandOf(target), BrandOf(candidate))
    ELSE RInt(0)

\* half the credit for a candidate of another category
CategoryPartial(target, candidate) ==
    IF CategoryOf(target) = CategoryOf(candidate) THEN RInt(100) ELSE RInt(50)

CategoryMatch(target, candidate) ==
    IF CategoryOf(target) = CategoryOf(candidate) THEN RInt(100) ELSE RInt(0)

WeightedScore(target, candidate, cfg) ==
    RAdd(RAdd(RMul(NameSimilarity(target, candidate), cfg.weight_name),
              RMul(BrandSimilarity(target, candidate), cfg.weight_brand)),
         RMul(CategoryMatch(target, candidate), cfg.weight_category))

\* the score when an identical name earns nothing extra
ScoreWithoutBonus(target, candidate, cfg) == WeightedScore(target, candidate, cfg)

\* overall_score, with exact_match_bonus added when the names are identical
OverallScore(target, candidate, cfg) ==
    IF NameOf(target) = NameOf(candidate)
    THEN RAdd(WeightedScore(target, candidate, cfg), cfg.exact_match_bonus)
    ELSE WeightedScore(target, candidate, cfg)

RetainedStrictly(score, cfg) == RLt(cfg.matching_threshold, score)

RetainedBelow(score, cfg) == RLeq(score, cfg.matching_threshold)

\* if overall_score >= self.matching_threshold
Retained(score, cfg) == RGeq(score, cfg.matching_threshold)

\* match_info = candidate.copy() and its four annotations
MatchInfo(target, candidate, cfg) ==
    [k \in (DOMAIN candidate) \cup AnnotationKeys |->
        CASE k = "similarity_score" -> OverallScore(target, candidate, cfg)
          [] k = "name_similarity"  -> NameSimilarity(target, candidate)
          [] k = "brand_similarity" -> BrandSimilarity(target, candidate)
          [] k = "category_match"   -> CategoryMatch(target, candidate)
          [] OTHER -> candidate[k]]

\* the loop over the candidates: the retained ones, annotated, in input order
RECURSIVE CollectMatches(_, _, _)
CollectMatches(target, candidates, cfg) ==
    IF candidates = <<>> THEN <<>>
    ELSE LET candidate == Head(candidates)
             rest      == CollectMatches(target, Tail(candidates), cfg)
         IN  IF Retained(OverallScore(target, candidate, cfg), cfg)
             THEN <<MatchInfo(target, candidate, cfg)>> \o rest
             ELSE rest

\* x placed into the descending list s behind every element that is not smaller
RECURSIVE InsertDescending(_, _)
InsertDescending(s, x) ==
    IF s = <<>> THEN <<x>>
    ELSE IF RGeq(Head(s)["similarity_score"], x["similarity_score"])
         THEN <<Head(s)>> \o InsertDescending(Tail(s), x)
         ELSE <<x>> \o s

RECURSIVE SortFrom(_, _)
SortFrom(sorted, rest) ==
    IF rest = <<>> THEN sorted
    ELSE SortFrom(InsertDescending(sorted, Head(rest)), Tail(rest))

Reverse(s) == [i \in 1..Len(s) |-> s[Len(s) + 1 - i]]

\* a descending sort that lets matches of one score change places
SortReversedInput(matches) == SortFrom(<<>>, Reverse(matches))

\* matches.sort(key=lambda x: x['similarity_score'], reverse=True): stable
SortBySimilarity(matches) == SortFrom(<<>>, matches)

find_matches(target, candidates, cfg) ==
    SortBySimilarity(CollectMatches(target, candidates, cfg))

-----------------------------------------------------------------------------
(* The listings the comparator is exercised on *)

Listing(name, brand, category, price, per_unit) ==
    [normalized_name |-> name, normalized_brand |-> brand,
     normalized_category |-> category, price |-> price,
     price_per_unit |-> per_unit]

Without(d, keys) == [k \in (DOMAIN d) \ keys |-> d[k]]

RefCarrot == Listing(Carrot, Farm2bag, "vegetables", RInt(45), RInt(45))

RefMilk == Listing(Milk, Farm2bag, "dairy", RInt(50), RInt(25))

RefMilkNoBrand ==
    Without(Listing(Milk, <<>>, "dairy", RInt(0), RInt(0)), {"normalized_brand"})

RefUnnamed == Listing(<<>>, <<>>, "general", RInt(45), Rat(45, 2))

ReferencePool == {RefCarrot, RefMilk, RefMilkNoBrand, RefUnnamed}

\* the candidates; their scores against RefCarrot under TestConfig are
\* 90, 96.5, 74.5, 98, 80, 0 and 90
CarrotJiomart == Listing(Carrot, Jiomart, "vegetables", RInt(50), RInt(50))

PackFarm2bag == Listing(CarrotPack, Farm2bag, "vegetables", RInt(40), RInt(40))

PackBigbasket == Listing(CarrotPack, Bigbasket, "dairy", RInt(45), RInt(45))

CarrotBigbasket == Listing(Carrot, Bigbasket, "vegetables", RInt(50), RInt(25))

CarrotDairy == Listing(Carrot, Jiomart, "dairy", RInt(0), RInt(0))

MilkNoBrand ==
    Without(Listing(Milk, <<>>, "dairy", RInt(60), RInt(30)), {"normalized_brand"})

CarrotUnbranded == Listing(Carrot, <<>>, "vegetables", RInt(45), RInt(45))

CandidatePool ==
    {CarrotJiomart, PackFarm2bag, PackBigbasket, CarrotBigbasket, CarrotDairy,
     MilkNoBrand, CarrotUnbranded}

\* the longest candidate list handed to find_matches
MaxCandidates == 3

-----------------------------------------------------------------------------
(* find_matches called once on inputs drawn from the pools *)

MatcherInit ==
    /\ target_product \in ReferencePool
    /\ candidate_products \in BSeq(CandidatePool, MaxCandidates)
    /\ fm_config \in Configs
    /\ fm_matches = <<>>
    /\ fm_pc = "ready"

MatcherIdle ==
    /\ target_product = <<>>
    /\ candidate_products = <<>>
    /\ fm_config = TestConfig
    /\ fm_matches = <<>>
    /\ fm_pc = "idle"

FindMatches ==
    /\ fm_pc = "ready"
    /\ fm_matches' = find_matches(target_product, candidate_products, fm_config)
    /\ fm_pc' = "returned"
    /\ UNCHANGED <<target_product, candidate_products, fm_config>>

-----------------------------------------------------------------------------
(* Claims about find_matches *)

\* a returned match without the annotations find_matches added to it
Strip(m) == Without(m, AnnotationKeys)

ScoreOf(m) == m["similarity_score"]

\* where the copies of candidate c stand in the returned list
Positions(c) == {i \in DOMAIN fm_matches : Strip(fm_matches[i]) = c}

Occurrences(c) == {j \in DOMAIN candidate_products : candidate_products[j] = c}

TargetScore(c) == OverallScore(target_product, c, fm_config)

\* C1: find_matches returns exactly the candidates whose overall score is >=
\* the threshold: nothing returned scores below it, and every candidate
\* that reaches it is returned once (as often as it stands in the input).
C1_RetainedIffThreshold ==
    fm_pc = "returned" =>
        /\ \A i \in DOMAIN fm_matches :
              /\ RGeq(ScoreOf(fm_matches[i]), fm_config.matching_threshold)
              /\ Strip(fm_matches[i]) \in Range(candidate_products)
              /\ ScoreOf(fm_matches[i]) = TargetScore(Strip(fm_matches[i]))
        /\ \A c \in Range(candidate_products) :
              Cardinality(Positions(c)) =
                  IF RGeq(TargetScore(c), fm_config.matching_threshold)
                  THEN Cardinality(Occurrences(c)) ELSE 0

\* a call that retained one candidate, at exactly the threshold, and dropped another
C1_Witness ==
    /\ fm_pc = "returned"
    /\ \E c \in Range(candidate_products) :
          TargetScore(c) = fm_config.matching_threshold /\ Positions(c) # {}
    /\ \E c \in Range(candidate_products) :
          RLt(TargetScore(c), fm_config.matching_threshold) /\ Positions(c) = {}

\* C2: the returned list is in descending order of similarity_score, and the
\* matches of one score stand in the order their candidates had in the input.
C2_SortedDescendingStable ==
    fm_pc = "returned" =>
        /\ \A i, j \in DOMAIN fm_matches :
              i < j => RGeq(ScoreOf(fm_matches[i]), ScoreOf(fm_matches[j]))
        /\ \A i \in DOMAIN fm_matches :
              LET score  == ScoreOf(fm_matches[i])
                  tied   == SelectSeq(fm_matches, LAMBDA m : ScoreOf(m) = score)
                  inputs == SelectSeq(candidate_products,
                                      LAMBDA c : TargetScore(c) = score)
              IN  [k \in DOMAIN tied |-> Strip(tied[k])] = inputs

\* two different candidates returned with one score, below a better match
C2_Witness ==
    /\ fm_pc = "returned"
    /\ \E i, j, k \in DOMAIN fm_matches :
          /\ i < j /\ j < k
          /\ RLt(ScoreOf(fm_matches[j]), ScoreOf(fm_matches[i]))
          /\ ScoreOf(fm_matches[j]) = ScoreOf(fm_matches[k])
          /\ Strip(fm_matches[j]) # Strip(fm_matches[k])

\* the candidates of the exact-match scenario
ExactOtherBrand(c) ==
    /\ NameOf(c) = NameOf(target_product)
    /\ BrandOf(c) # <<>>
    /\ BrandOf(c) # BrandOf(target_product)
    /\ CategoryOf(c) = CategoryOf(target_product)

NearMiss(c) ==
    /\ NameOf(c) # NameOf(target_product)
    /\ NameSimilarity(target_product, c) = RInt(95)

\* 70 + brand_similarity * 0.2 + 10 + 10
ExactScenarioScore(c) ==
    RAdd(RInt(90), RMul(BrandSimilarity(target_product, c), Rat(2, 10)))

\* what brand and category add to a candidate's score under TestConfig
BrandAndCategoryPart(c) ==
    RAdd(RMul(BrandSimilarity(target_product, c), Rat(2, 10)),
         RMul(CategoryMatch(target_product, c), Rat(1, 10)))

\* C3 as stated: under the test configuration an exact-name candidate of
\* another brand and the same category scores 70 + brand*0.2 + 10 + 10 and
\* stands above every 95%-name candidate, whatever that one's brand and category.
C3_ExactAboveEveryNearMiss ==
    (fm_pc = "returned" /\ fm_config = TestConfig) =>
        \A e, x \in Range(candidate_products) :
            (ExactOtherBrand(e) /\ NearMiss(x)) =>
                /\ Positions(e) # {}
                /\ \A i \in Positions(e) :
                      ScoreOf(fm_matches[i]) = ExactScenarioScore(e)
                /\ \A i \in Positions(e), j \in Positions(x) : i < j

\* C3 amended: the exact-name candidate scores 70 + brand*0.2 + 10 + 10 and
\* stands above every 95%-name candidate x for which
\* brand_similarity(x)*0.2 + category_match(x)*0.1 <
\* 23.5 + brand_similarity(e)*0.2, that is whose score 66.5 + ... is lower.
C3_ExactAboveLowerNearMiss ==
    (fm_pc = "returned" /\ fm_config = TestConfig) =>
        \A e, x \in Range(candidate_products) :
            (ExactOtherBrand(e) /\ NearMiss(x)) =>
                /\ Positions(e) # {}
                /\ \A i \in Positions(e) :
                      ScoreOf(fm_matches[i]) = ExactScenarioScore(e)
                /\ RLt(BrandAndCategoryPart(x),
                       RAdd(Rat(47, 2),
                            RMul(BrandSimilarity(target_product, e), Rat(2, 10))))
                   => \A i \in Positions(e), j \in Positions(x) : i < j

\* an exact-name candidate returned above a 95%-name candidate that came
\* first in the input and shares the reference's brand and category
C3_Witness ==
    /\ fm_pc = "returned" /\ fm_config = TestConfig
    /\ \E e, x \in Range(candidate_products) :
          /\ ExactOtherBrand(e) /\ NearMiss(x)
          /\ BrandSimilarity(target_product, x) = RInt(100)
          /\ CategoryMatch(target_product, x) = RInt(100)
          /\ \E i \in Positions(e), j \in Positions(x) : i < j
          /\ \E p \in Occurrences(e), q \in Occurrences(x) : q < p

\* the thresholds the call is repeated with
Thresholds == {RInt(60), RInt(75), RInt(80), RInt(90), RInt(100), RInt(110)}

\* what find_matches returns for the same reference, candidates and weights
\* with threshold t
MatchesAt(t) ==
    find_matches(target_product, candidate_products,
                 [fm_config EXCEPT !.matching_threshold = t])

\* a can be had from b by leaving elements out, the others kept in order
RECURSIVE IsSubsequence(_, _)
IsSubsequence(a, b) ==
    IF a = <<>> THEN TRUE
    ELSE IF b = <<>> THEN FALSE
    ELSE IF Head(a) = Head(b) THEN IsSubsequence(Tail(a), Tail(b))
    ELSE IsSubsequence(a, Tail(b))

\* C14: for the same reference, candidates and weights and thresholds
\* t1 <= t2, what find_matches returns with t2 is a subset of what it
\* returns with t1, in the same relative order.
C14_ThresholdMonotonic ==
    fm_pc = "returned" =>
        /\ fm_matches = MatchesAt(fm_config.matching_threshold)
        /\ \A t2 \in Thresholds :
              RLeq(fm_config.matching_threshold, t2)
                  => IsSubsequence(MatchesAt(t2), fm_matches)

\* three matches of which a higher threshold keeps the first two
C14_Witness ==
    /\ fm_pc = "returned"
    /\ Len(fm_matches) = 3
    /\ \E t2 \in Thresholds :
          /\ RLt(fm_config.matching_threshold, t2)
          /\ MatchesAt(t2) = SubSeq(fm_matches, 1, 2)

\* the components match m carries, weighted with the configured weights as
\* they are
CarriedWeightedSum(m) ==
    RAdd(RAdd(RMul(m["name_similarity"], fm_config.weight_name),
              RMul(m["brand_similarity"], fm_config.weight_brand)),
         RMul(m["category_match"], fm_config.weight_category))

\* C15: every returned match carries the components it was ranked by: its
\* similarity_score is name_similarity * weight_name + brand_similarity *
\* weight_brand + category_match * weight_category with the configured
\* weights as given, plus the exact-match bonus iff its canonical name
\* equals the reference's; category_match is 100 iff the two categories are
\* equal and 0 otherwise, name_similarity is the ratio of the two names.
C15_ScoreFromCarriedComponents ==
    fm_pc = "returned" =>
        \A i \in DOMAIN fm_matches :
            LET m == fm_matches[i]
            IN  /\ AnnotationKeys \subseteq DOMAIN m
                /\ m["name_similarity"]
                      = IndelRatio(NameOf(target_product), NameOf(m))
                /\ m["category_match"]
                      = IF CategoryOf(target_product) = CategoryOf(m)
                        THEN RInt(100) ELSE RInt(0)
                /\ ScoreOf(m)
                      = IF NameOf(target_product) = NameOf(m)
                        THEN RAdd(CarriedWeightedSum(m),
                                  fm_config.exact_match_bonus)
                        ELSE CarriedWeightedSum(m)

\* weights that sum to 2: a match with the bonus and another category, and
\* a match without the bonus whose brand resembles the reference's
C15_Witness ==
    /\ fm_pc = "returned"
    /\ fm_config = HeavyConfig
    /\ \E i, j \in DOMAIN fm_matches :
          /\ NameOf(fm_matches[i]) = NameOf(target_product)
          /\ fm_matches[i]["category_match"] = RInt(0)
          /\ NameOf(fm_matches[j]) # NameOf(target_product)
          /\ RLt(RInt(0), fm_matches[j]["brand_similarity"])

\* the reference or the candidate has no brand: the key is missing or the
\* brand is the empty text
BrandMissing(c) == BrandOf(target_product) = <<>> \/ BrandOf(c) = <<>>

\* the score of candidate c without any brand term
BrandlessScore(c) ==
    LET weighted ==
            RAdd(RMul(IndelRatio(NameOf(target_product), NameOf(c)),
                      fm_config.weight_name),
                 RMul(IF CategoryOf(target_product) = CategoryOf(c)
                      THEN RInt(100) ELSE RInt(0),
                      fm_config.weight_category))
    IN  IF NameOf(target_product) = NameOf(c)
        THEN RAdd(weighted, fm_config.exact_match_bonus) ELSE weighted

\* C16: when the reference's or the candidate's canonical brand is empty or
\* absent, both being empty included, the brand similarity is 0 and the
\* brand term adds nothing to the overall score: the candidate is returned
\* iff its score without a brand term reaches the threshold, and the match
\* carries brand_similarity 0 and that score.
C16_MissingBrandScoresZero ==
    fm_pc = "returned" =>
        /\ \A i \in DOMAIN fm_matches :
              BrandMissing(fm_matches[i]) =>
                  /\ fm_matches[i]["brand_similarity"] = RInt(0)
                  /\ ScoreOf(fm_matches[i]) = BrandlessScore(fm_matches[i])
        /\ \A c \in Range(candidate_products) :
              BrandMissing(c) =>
                  (Positions(c) # {}
                      <=> RGeq(BrandlessScore(c), fm_config.matching_threshold))

\* a reference without a brand matched with a candidate without a brand:
\* the ratio of the two empty brands would be 100
C16_Witness ==
    /\ fm_pc = "returned"
    /\ BrandOf(target_product) = <<>>
    /\ \E i \in DOMAIN fm_matches :
          /\ BrandOf(fm_matches[i]) = <<>>
          /\ fm_matches[i]["brand_similarity"] = RInt(0)
          /\ IndelRatio(BrandOf(target_product), BrandOf(fm_matches[i]))
                 = RInt(100)

-----------------------------------------------------------------------------
(* PriceComparator.calculate_price_difference *)

Zero == RInt(0)

FractionOf(diff, denominator) ==
    IF RLt(Zero, denominator) THEN RDiv(diff, denominator) ELSE Zero

\* (diff / denominator * 100) if denominator > 0 else 0
PercentageOf(diff, denominator) ==
    IF RLt(Zero, denominator)
    THEN RMul(RDiv(diff, denominator), RInt(100))
    ELSE Zero

NotDearer(absolute_diff) == RLeq(absolute_diff, Zero)

\* absolute_diff < 0
Farm2bagCheaper(absolute_diff) == RLt(absolute_diff, Zero)

calculate_price_difference(farm2bag, competitor) ==
    LET farm2bag_price            == Get(farm2bag, "price", Zero)
        competitor_price          == Get(competitor, "price", Zero)
        farm2bag_price_per_unit   == Get(farm2bag, "price_per_unit", Zero)
        competitor_price_per_unit == Get(competitor, "price_per_unit", Zero)
        absolute_diff  == RSub(farm2bag_price, competitor_price)
        percentage_diff == PercentageOf(absolute_diff, competitor_price)
        per_unit_diff  == RSub(farm2bag_price_per_unit, competitor_price_per_unit)
        per_unit_percentage == PercentageOf(per_unit_diff, competitor_price_per_unit)
    IN  [farm2bag_product |-> farm2bag,
         competitor_product |-> competitor,
         price_comparison |->
            [farm2bag_price |-> farm2bag_price,
             competitor_price |-> competitor_price,
             absolute_difference |-> absolute_diff,
             percentage_difference |-> percentage_diff,
             farm2bag_cheaper |-> Farm2bagCheaper(absolute_diff),
             price_advantage |->
                IF RLt(absolute_diff, Zero) THEN "Farm2bag" ELSE "Competitor"],
         unit_price_comparison |->
            [farm2bag_price_per_unit |-> farm2bag_price_per_unit,
             competitor_price_per_unit |-> competitor_price_per_unit,
             per_unit_difference |-> per_unit_diff,
             per_unit_percentage |-> per_unit_percentage,
             better_unit_price |->
                IF RLt(per_unit_diff, Zero) THEN "Farm2bag" ELSE "Competitor"],
         similarity_score |-> Get(competitor, "similarity_score", Zero)]

\* listings as calculate_price_difference reads them: a price and a price
\* per unit, either of which may be missing
PricedPool ==
    LET prices == {RInt(0), RInt(45), RInt(50)}
        units  == {RInt(0), RInt(25), RInt(45)}
    IN  {[price |-> p, price_per_unit |-> u] : p \in prices, u \in units}
            \cup {[price |-> p] : p \in prices}
            \cup {[price_per_unit |-> u] : u \in units}

DifferInit ==
    /\ farm2bag_product \in PricedPool
    /\ competitor_product \in PricedPool
    /\ pd_result = <<>>
    /\ pd_pc = "ready"

DifferIdle ==
    /\ farm2bag_product = <<>>
    /\ competitor_product = <<>>
    /\ pd_result = <<>>
    /\ pd_pc = "idle"

CalculatePriceDifference ==
    /\ pd_pc = "ready"
    /\ pd_result' = calculate_price_difference(farm2bag_product, competitor_product)
    /\ pd_pc' = "returned"
    /\ UNCHANGED <<farm2bag_product, competitor_product>>

-----------------------------------------------------------------------------
(* Claims about calculate_price_difference *)

PriceOf(p) == Get(p, "price", Zero)

PerUnitOf(p) == Get(p, "price_per_unit", Zero)

\* percentage is absolute / denominator * 100, or 0 when nothing was divided
PercentageAgrees(percentage, absolute, denominator) ==
    IF RLt(Zero, denominator)
    THEN RMul(percentage, denominator) = RMul(RInt(100), absolute)
    ELSE percentage = Zero

\* C6: absolute_difference = reference price - candidate price, and
\* percentage_difference = absolute_difference / candidate price * 100 when
\* the candidate price is > 0 and 0 when it is 0; the per-unit percentage
\* likewise, over the candidate's price_per_unit.
C6_DifferenceAndPercentage ==
    pd_pc = "returned" =>
        LET pc == pd_result.price_comparison
            uc == pd_result.unit_price_comparison
        IN  /\ RAdd(pc.absolute_difference, PriceOf(competitor_product))
                  = PriceOf(farm2bag_product)
            /\ PercentageAgrees(pc.percentage_difference, pc.absolute_difference,
                                PriceOf(competitor_product))
            /\ RAdd(uc.per_unit_difference, PerUnitOf(competitor_product))
                  = PerUnitOf(farm2bag_product)
            /\ PercentageAgrees(uc.per_unit_percentage, uc.per_unit_difference,
                                PerUnitOf(competitor_product))

\* a candidate priced 0 with a price per unit above 0, against a dearer reference
C6_Witness ==
    /\ pd_pc = "returned"
    /\ PriceOf(competitor_product) = Zero
    /\ RLt(Zero, PriceOf(farm2bag_product))
    /\ pd_result.price_comparison.percentage_difference = Zero
    /\ RLt(Zero, PerUnitOf(competitor_product))
    /\ pd_result.unit_price_comparison.per_unit_percentage # Zero

\* C7: for non-negative prices farm2bag_cheaper is true iff
\* absolute_difference < 0 iff percentage_difference < 0 (iff the reference
\* price is below the candidate's), price_advantage is 'Farm2bag' exactly
\* then, and equal prices give absolute_difference = 0 and
\* farm2bag_cheaper = false.
C7_VerdictMatchesSigns ==
    pd_pc = "returned" =>
        LET pc == pd_result.price_comparison
            below == RLt(PriceOf(farm2bag_product), PriceOf(competitor_product))
        IN  /\ pc.farm2bag_cheaper = below
            /\ RLt(pc.absolute_difference, Zero) = below
            /\ RLt(pc.percentage_difference, Zero) = below
            /\ (pc.price_advantage = "Farm2bag") = below
            /\ pc.price_advantage \in {"Farm2bag", "Competitor"}
            /\ PriceOf(farm2bag_product) = PriceOf(competitor_product)
                  => pc.absolute_difference = Zero /\ ~pc.farm2bag_cheaper

\* a reference that is cheaper overall and dearer per unit
C7_Witness ==
    /\ pd_pc = "returned"
    /\ pd_result.price_comparison.farm2bag_cheaper
    /\ RLt(pd_result.price_comparison.percentage_difference, Zero)
    /\ pd_result.unit_price_comparison.better_unit_price = "Competitor"

-----------------------------------------------------------------------------
(* PriceComparator.calculate_statistics *)

RECURSIVE SumOf(_)
SumOf(s) == IF s = <<>> THEN Zero ELSE RAdd(Head(s), SumOf(Tail(s)))

RECURSIVE MinOf(_)
MinOf(s) ==
    IF Len(s) = 1 THEN s[1]
    ELSE LET m == MinOf(Tail(s)) IN IF RLeq(Head(s), m) THEN Head(s) ELSE m

RECURSIVE MaxOf(_)
MaxOf(s) ==
    IF Len(s) = 1 THEN s[1]
    ELSE LET m == MaxOf(Tail(s)) IN IF RGeq(Head(s), m) THEN Head(s) ELSE m

RECURSIVE InsertSorted(_, _)
InsertSorted(s, x) ==
    IF s = <<>> THEN <<x>>
    ELSE IF RLeq(Head(s), x) THEN <<Head(s)>> \o InsertSorted(Tail(s), x)
         ELSE <<x>> \o s

\* sorted(price_differences)
RECURSIVE Sorted(_)
Sorted(s) == IF s = <<>> THEN <<>> ELSE InsertSorted(Sorted(Tail(s)), Head(s))

LowerMiddle(price_differences) ==
    Sorted(price_differences)[(Len(price_differences) - 1) \div 2 + 1]

\* sorted(price_differences)[len(price_differences) // 2], indices from 0
MedianOf(price_differences) ==
    Sorted(price_differences)[Len(price_differences) \div 2 + 1]

NotDearerMatches(matches) ==
    SelectSeq(matches,
              LAMBDA m : RLeq(m.price_comparison.percentage_difference, Zero))

\* [match for match in matches if match['price_comparison']['farm2bag_cheaper']]
CheaperMatches(matches) ==
    SelectSeq(matches, LAMBDA m : m.price_comparison.farm2bag_cheaper)

calculate_statistics(matches) ==
    IF matches = <<>>
    THEN [total_matches |-> 0,
          farm2bag_cheaper_count |-> 0,
          competitor_cheaper_count |-> 0,
          average_price_difference_percentage |-> Zero,
          max_savings_percentage |-> Zero,
          min_savings_percentage |-> Zero]
    ELSE LET price_differences ==
                 [i \in DOMAIN matches |->
                     matches[i].price_comparison.percentage_difference]
             farm2bag_cheaper == CheaperMatches(matches)
         IN  [total_matches |-> Len(matches),
              farm2bag_cheaper_count |-> Len(farm2bag_cheaper),
              competitor_cheaper_count |-> Len(matches) - Len(farm2bag_cheaper),
              farm2bag_cheaper_percentage |->
                  RMul(Rat(Len(farm2bag_cheaper), Len(matches)), RInt(100)),
              average_price_difference_percentage |->
                  RDiv(SumOf(price_differences), RInt(Len(price_differences))),
              max_savings_percentage |-> MinOf(price_differences),
              min_savings_percentage |-> MaxOf(price_differences),
              median_price_difference |-> MedianOf(price_differences)]

\* a candidate as compare_products tags it with its site
Tagged(site, product) == Put(product, "comparison_site", site)

\* the record compare_products builds for a reference and its best match
ComparisonOf(reference, site, candidate) ==
    LET match == MatchInfo(reference, Tagged(site, candidate), TestConfig)
    IN  Put(calculate_price_difference(reference, match), "all_matches", <<match>>)

\* records with the percentage differences -10, 12.5, 0, -50/3 and -100
RecordPool ==
    {ComparisonOf(RefCarrot, "jiomart", CarrotJiomart),
     ComparisonOf(RefCarrot, "bigbasket", PackFarm2bag),
     ComparisonOf(RefCarrot, "bigbasket", CarrotUnbranded),
     ComparisonOf(RefMilk, "jiomart", MilkNoBrand),
     ComparisonOf(RefMilkNoBrand, "bigbasket", MilkNoBrand)}

\* the longest record list handed to calculate_statistics
MaxRecords == 4

StatisticsInit ==
    /\ st_matches \in BSeq(RecordPool, MaxRecords)
    /\ st_result = <<>>
    /\ st_pc = "ready"

StatisticsIdle ==
    /\ st_matches = <<>>
    /\ st_result = <<>>
    /\ st_pc = "idle"

CalculateStatistics ==
    /\ st_pc = "ready"
    /\ st_result' = calculate_statistics(st_matches)
    /\ st_pc' = "returned"
    /\ UNCHANGED st_matches

-----------------------------------------------------------------------------
(* Claims about calculate_statistics *)

PercentageAt(i) == st_matches[i].price_comparison.percentage_difference

\* m is the value that stands at 0-based index k when the percentage
\* differences of st_matches are put in ascending order
IsOrderStatistic(m, k) ==
    /\ \E i \in DOMAIN st_matches : PercentageAt(i) = m
    /\ Cardinality({i \in DOMAIN st_matches : RLt(PercentageAt(i), m)}) <= k
    /\ Cardinality({i \in DOMAIN st_matches : RLeq(PercentageAt(i), m)}) > k

\* C8 as stated: the median is the middle element of the ascending
\* percentage differences, the lower-middle one (index n/2 - 1 from 0) when
\* the number of records is even.
C8_MedianLowerMiddle ==
    (st_pc = "returned" /\ st_matches # <<>>) =>
        IsOrderStatistic(st_result["median_price_difference"],
                         (Len(st_matches) - 1) \div 2)

\* C8 amended: the median is the element at index n // 2 (from 0) of the
\* ascending percentage differences: the middle one for an odd number of
\* records, the upper-middle one for an even number.
C8_MedianUpperMiddle ==
    (st_pc = "returned" /\ st_matches # <<>>) =>
        IsOrderStatistic(st_result["median_price_difference"],
                         Len(st_matches) \div 2)

\* four records with two different middle values
C8_Witness ==
    /\ st_pc = "returned"
    /\ Len(st_matches) = 4
    /\ IsOrderStatistic(st_result["median_price_difference"], 2)
    /\ ~IsOrderStatistic(st_result["median_price_difference"], 1)

\* what a result for a non-empty list carries
CountKeys == {"total_matches", "farm2bag_cheaper_count", "competitor_cheaper_count"}

DerivedKeys ==
    {"farm2bag_cheaper_percentage", "average_price_difference_percentage",
     "median_price_difference", "max_savings_percentage", "min_savings_percentage"}

\* C9: for an empty record list every count and every derived statistic of
\* a non-empty result is present in the result and equal to 0.
C9_EmptyAllZero ==
    (st_pc = "returned" /\ st_matches = <<>>) =>
        /\ \A k \in CountKeys : k \in DOMAIN st_result /\ st_result[k] = 0
        /\ \A k \in DerivedKeys : k \in DOMAIN st_result /\ st_result[k] = Zero

\* the records of st_matches whose reference price is below, and not
\* below, the price of the matched candidate
PricedBelow ==
    {i \in DOMAIN st_matches :
        RLt(st_matches[i].price_comparison.farm2bag_price,
            st_matches[i].price_comparison.competitor_price)}

PricedEqual ==
    {i \in DOMAIN st_matches :
        st_matches[i].price_comparison.farm2bag_price
            = st_matches[i].price_comparison.competitor_price}

\* C18: for every record list total_matches is the number of records,
\* farm2bag_cheaper_count the number of records flagged reference-cheaper
\* and competitor_cheaper_count the number of the others, so the two counts
\* sum to total_matches; a record with equal prices is not flagged and is
\* counted on the competitor side.
C18_CountsSumToTotal ==
    st_pc = "returned" =>
        LET flagged == {i \in DOMAIN st_matches :
                           st_matches[i].price_comparison.farm2bag_cheaper}
        IN  /\ st_result["total_matches"] = Len(st_matches)
            /\ st_result["farm2bag_cheaper_count"] = Cardinality(flagged)
            /\ st_result["competitor_cheaper_count"]
                   = Cardinality(DOMAIN st_matches \ flagged)
            /\ st_result["farm2bag_cheaper_count"]
                   + st_result["competitor_cheaper_count"]
                   = st_result["total_matches"]
            /\ flagged = PricedBelow
            /\ st_result["competitor_cheaper_count"]
                   = Cardinality(DOMAIN st_matches \ PricedBelow)

\* a record with equal prices next to a cheaper and a dearer reference
C18_Witness ==
    /\ st_pc = "returned"
    /\ PricedEqual # {}
    /\ PricedBelow # {}
    /\ st_result["competitor_cheaper_count"] > Cardinality(PricedEqual)
    /\ st_result["farm2bag_cheaper_count"] + Cardinality(PricedEqual)
           < st_result["total_matches"]

-----------------------------------------------------------------------------
(* PriceComparator.analyze_pricing *)

\* the site names in ascending order, as pandas' groupby puts the groups
SiteOrder == <<"bigbasket", "jiomart", "unknown">>

Floor(x) == x.n \div x.d

\* DataFrame.round(2): to the nearest hundredth, a tie to the even one
Round2(x) ==
    LET scaled == RMul(x, RInt(100))
        low    == Floor(scaled)
        twice  == RSub(RMul(scaled, RInt(2)), RInt(2 * low))
    IN  IF RLt(twice, RInt(1)) THEN Rat(low, 100)
        ELSE IF RLt(RInt(1), twice) THEN Rat(low + 1, 100)
        ELSE IF low % 2 = 0 THEN Rat(low, 100) ELSE Rat(low + 1, 100)

MeanOf(s) == RDiv(SumOf(s), RInt(Len(s)))

RowOfCandidate(match) ==
    [category |-> Get(match.competitor_product, "normalized_category", "unknown"),
     site |-> Get(match.competitor_product, "comparison_site", "unknown"),
     percentage_diff |-> match.price_comparison.percentage_difference,
     farm2bag_cheaper |-> match.price_comparison.farm2bag_cheaper,
     similarity_score |-> match.similarity_score]

\* one row of the DataFrame per match
PricingRow(match) ==
    [category |-> Get(match.farm2bag_product, "normalized_category", "unknown"),
     site |-> Get(match.competitor_product, "comparison_site", "unknown"),
     percentage_diff |-> match.price_comparison.percentage_difference,
     farm2bag_cheaper |-> match.price_comparison.farm2bag_cheaper,
     similarity_score |-> match.similarity_score]

PercentagesOf(rows) == [i \in DOMAIN rows |-> rows[i].percentage_diff]

\* df.groupby(column).agg({'percentage_diff': ['mean', 'count'],
\*                         'farm2bag_cheaper': 'sum'}).round(2).to_dict()
GroupAnalysis(rows, column) ==
    LET groups   == {rows[i][column] : i \in DOMAIN rows}
        group(g) == SelectSeq(rows, LAMBDA r : r[column] = g)
    IN  [percentage_diff_mean |->
             [g \in groups |-> Round2(MeanOf(PercentagesOf(group(g))))],
         percentage_diff_count |-> [g \in groups |-> Len(group(g))],
         farm2bag_cheaper_sum |->
             [g \in groups |->
                 Len(SelectSeq(group(g), LAMBDA r : r.farm2bag_cheaper))]]

\* df.groupby('site')['percentage_diff'].mean().idxmin(): the first site, in
\* ascending order of the names, whose mean is the smallest
MostCompetitiveSite(rows) ==
    LET sites   == {rows[i].site : i \in DOMAIN rows}
        mean(g) == MeanOf(PercentagesOf(SelectSeq(rows, LAMBDA r : r.site = g)))
        first   == CHOOSE k \in DOMAIN SiteOrder :
                      /\ SiteOrder[k] \in sites
                      /\ \A g \in sites : RLeq(mean(SiteOrder[k]), mean(g))
                      /\ \A j \in 1..(k - 1) :
                            SiteOrder[j] \in sites
                                => RLt(mean(SiteOrder[k]), mean(SiteOrder[j]))
    IN  SiteOrder[first]

analyze_pricing(matches) ==
    IF matches = <<>> THEN <<>>
    ELSE LET rows == [i \in DOMAIN matches |-> PricingRow(matches[i])]
         IN  [by_category |-> GroupAnalysis(rows, "category"),
              by_site |-> GroupAnalysis(rows, "site"),
              overall_competitiveness |->
                  [avg_price_difference |-> MeanOf(PercentagesOf(rows)),
                   competitive_categories |->
                       GroupAnalysis(rows, "category").farm2bag_cheaper_sum,
                   most_competitive_site |-> MostCompetitiveSite(rows)]]

\* the records of calculate_statistics, one whose candidate is of another
\* category than its reference, and one whose reference has no category
\* and whose candidate no site
PricingPool ==
    RecordPool
        \cup {ComparisonOf(RefCarrot, "jiomart", CarrotDairy),
              LET reference == Without(RefMilk, {"normalized_category"})
                  match     == MatchInfo(reference, MilkNoBrand, TestConfig)
              IN  calculate_price_difference(reference, match)}

\* the longest record list handed to analyze_pricing
MaxPricingRecords == 3

PricingInit ==
    /\ ap_matches \in BSeq(PricingPool, MaxPricingRecords)
    /\ ap_result = <<>>
    /\ ap_pc = "ready"

PricingIdle ==
    /\ ap_matches = <<>>
    /\ ap_result = <<>>
    /\ ap_pc = "idle"

AnalyzePricing ==
    /\ ap_pc = "ready"
    /\ ap_result' = analyze_pricing(ap_matches)
    /\ ap_pc' = "returned"
    /\ UNCHANGED ap_matches

-----------------------------------------------------------------------------
(* Claims about analyze_pricing *)

\* the normalized category of the reference of record i, and the source of
\* its matched candidate
ReferenceCategory(i) ==
    Get(ap_matches[i].farm2bag_product, "normalized_category", "unknown")

CandidateSource(i) ==
    Get(ap_matches[i].competitor_product, "comparison_site", "unknown")

\* f[g] added up over the groups g
RECURSIVE TotalOver(_, _)
TotalOver(f, groups) ==
    IF groups = {} THEN 0
    ELSE LET g == CHOOSE x \in groups : TRUE
         IN  f[g] + TotalOver(f, groups \ {g})

\* the breakdown has one group for each key that occurs, a group counts
\* the records of its key and, of these, the ones flagged reference-cheaper
Partitions(breakdown, key(_)) ==
    LET count   == breakdown.percentage_diff_count
        cheaper == breakdown.farm2bag_cheaper_sum
        keys    == {key(i) : i \in DOMAIN ap_matches}
    IN  /\ DOMAIN count = keys
        /\ DOMAIN cheaper = keys
        /\ \A g \in keys :
              /\ count[g] = Cardinality({i \in DOMAIN ap_matches : key(i) = g})
              /\ cheaper[g] =
                    Cardinality({i \in DOMAIN ap_matches :
                        /\ key(i) = g
                        /\ ap_matches[i].price_comparison.farm2bag_cheaper})
        /\ TotalOver(count, keys) = Len(ap_matches)

\* C19: analyze_pricing groups the records by the reference's normalized
\* category and, separately, by the matched candidate's source; in each
\* breakdown every record is counted in the one group of its key, the group
\* counts sum to the number of records and a group's reference-cheaper count
\* is the number of its records flagged reference-cheaper; an empty record
\* list gives an empty breakdown.
C19_BreakdownsPartition ==
    ap_pc = "returned" =>
        IF ap_matches = <<>> THEN ap_result = <<>>
        ELSE /\ Partitions(ap_result.by_category, ReferenceCategory)
             /\ Partitions(ap_result.by_site, CandidateSource)

\* three records in two category groups and two source groups, grouped
\* differently by category and by source, one candidate of another category
\* than its reference, and a source group of which a part is flagged
C19_Witness ==
    /\ ap_pc = "returned"
    /\ Len(ap_matches) = 3
    /\ Cardinality(DOMAIN ap_result.by_category.percentage_diff_count) = 2
    /\ Cardinality(DOMAIN ap_result.by_site.percentage_diff_count) = 2
    /\ \E i, j \in DOMAIN ap_matches :
          /\ ReferenceCategory(i) = ReferenceCategory(j)
          /\ CandidateSource(i) # CandidateSource(j)
    /\ \E i \in DOMAIN ap_matches :
          Get(ap_matches[i].competitor_product, "normalized_category", "unknown")
              # ReferenceCategory(i)
    /\ \E g \in DOMAIN ap_result.by_category.farm2bag_cheaper_sum :
          ap_result.by_category.farm2bag_cheaper_sum[g] > 0
    /\ \E g \in DOMAIN ap_result.by_site.farm2bag_cheaper_sum :
          /\ ap_result.by_site.farm2bag_cheaper_sum[g] > 0
          /\ ap_result.by_site.farm2bag_cheaper_sum[g]
                < ap_result.by_site.percentage_diff_count[g]

-----------------------------------------------------------------------------
(* PriceComparator.compare_products *)

\* product['comparison_site'] = site, for every product of every site: the
\* caller's dictionaries after the first loop
TaggedProducts(competitors) ==
    [site \in DOMAIN competitors |->
        [i \in DOMAIN competitors[site] |-> Tagged(site, competitors[site][i])]]

\* all_competitor_products: the tagged products, site after site
RECURSIVE AllCompetitorProducts(_, _)
AllCompetitorProducts(sites, competitors) ==
    IF sites = <<>> THEN <<>>
    ELSE TaggedProducts(competitors)[Head(sites)]
             \o AllCompetitorProducts(Tail(sites), competitors)

Take(s, n) == SubSeq(s, 1, IF Len(s) < n THEN Len(s) ELSE n)

LastMatch(matches) == matches[Len(matches)]

\* best_match = matches[0]
BestMatch(matches) == Head(matches)

\* the loop over the Farm2bag products, filling the two result lists
RECURSIVE CompareEach(_, _, _, _)
CompareEach(products, all_competitor_products, cfg, results) ==
    IF products = <<>> THEN results
    ELSE LET product == Head(products)
             matches == find_matches(product, all_competitor_products, cfg)
             comparison_result ==
                 Put(calculate_price_difference(product, BestMatch(matches)),
                     "all_matches", Take(matches, 3))
             after ==
                 IF matches # <<>>
                 THEN [results EXCEPT !.matches = Append(@, comparison_result)]
                 ELSE [results EXCEPT !.no_matches =
                          Append(@, [product |-> product,
                                     reason |-> "No similar products found"])]
         IN  CompareEach(Tail(products), all_competitor_products, cfg, after)

compare_products(products, sites, competitors, cfg) ==
    LET all_competitor_products == AllCompetitorProducts(sites, competitors)
        compared == CompareEach(products, all_competitor_products, cfg,
                                [matches |-> <<>>, no_matches |-> <<>>])
    IN  [matches |-> compared.matches,
         no_matches |-> compared.no_matches,
         statistics |-> calculate_statistics(compared.matches),
         price_analysis |-> analyze_pricing(compared.matches)]

ComparePool == {CarrotJiomart, CarrotBigbasket, MilkNoBrand}

CompareReferences == {RefCarrot, RefMilk, RefUnnamed}

CompareConfigs == {TestConfig, DefaultConfig}

\* the orders in which a dict can hold none, one or both of the two sites
SiteOrders ==
    {<<>>, <<"bigbasket">>, <<"jiomart">>, <<"bigbasket", "jiomart">>,
     <<"jiomart", "bigbasket">>}

\* the most reference listings, and the most listings of one site
MaxReferences == 2

MaxPerSite == 1

CompareInit ==
    /\ farm2bag_products \in BSeq(CompareReferences, MaxReferences)
    /\ competitor_sites \in SiteOrders
    /\ competitor_products \in
           [Range(competitor_sites) -> BSeq(ComparePool, MaxPerSite)]
    /\ cp_config \in CompareConfigs
    /\ cp_results = <<>>
    /\ cp_pc = "ready"

CompareIdle ==
    /\ farm2bag_products = <<>>
    /\ competitor_sites = <<>>
    /\ competitor_products = <<>>
    /\ cp_config = TestConfig
    /\ cp_results = <<>>
    /\ cp_pc = "idle"

CompareProducts ==
    /\ cp_pc = "ready"
    /\ competitor_products' = TaggedProducts(competitor_products)
    /\ cp_results' = compare_products(farm2bag_products, competitor_sites,
                                      competitor_products, cp_config)
    /\ cp_pc' = "returned"
    /\ UNCHANGED <<farm2bag_products, competitor_sites, cp_config>>

-----------------------------------------------------------------------------
(* Claims about compare_products *)

AllCompared == AllCompetitorProducts(competitor_sites, competitor_products)

\* some competitor listing reaches the threshold for reference r
ReachesThreshold(r) ==
    \E i \in DOMAIN AllCompared :
        RGeq(OverallScore(r, AllCompared[i], cp_config),
             cp_config.matching_threshold)

\* C10: every reference item is in exactly one result list: in matches,
\* paired with the first element of find_matches over the listings of all
\* sites, iff some candidate reaches the threshold, otherwise in no_matches
\* with a reason; both lists keep the input order, their lengths add up to
\* the number of reference items, and without any candidate every item is a
\* no-match and the statistics are zero.
C10_EveryReferencePlacedOnce ==
    cp_pc = "returned" =>
        LET matches    == cp_results.matches
            no_matches == cp_results.no_matches
        IN  /\ Len(matches) + Len(no_matches) = Len(farm2bag_products)
            /\ [i \in DOMAIN matches |-> matches[i].farm2bag_product]
                  = SelectSeq(farm2bag_products, ReachesThreshold)
            /\ [i \in DOMAIN no_matches |-> no_matches[i].product]
                  = SelectSeq(farm2bag_products, LAMBDA r : ~ReachesThreshold(r))
            /\ \A i \in DOMAIN matches :
                  matches[i].competitor_product =
                      Head(find_matches(matches[i].farm2bag_product,
                                        AllCompared, cp_config))
            /\ \A i \in DOMAIN no_matches :
                  no_matches[i].reason = "No similar products found"
            /\ AllCompared = <<>> =>
                  /\ matches = <<>>
                  /\ Len(no_matches) = Len(farm2bag_products)
                  /\ CountKeys \subseteq DOMAIN cp_results.statistics
                  /\ \A k \in DOMAIN cp_results.statistics :
                        cp_results.statistics[k]
                            = IF k \in CountKeys THEN 0 ELSE Zero

\* a run of two references, the first
\* unmatched and the second matched with the listing of the second site,
\* which outscores the listing of the first
C10_Witness ==
    /\ cp_pc = "returned"
    /\ Len(farm2bag_products) = 2
    /\ Len(cp_results.no_matches) = 1
    /\ cp_results.no_matches[1].product = farm2bag_products[1]
    /\ Len(cp_results.matches) = 1
    /\ Len(cp_results.matches[1].all_matches) = 2
    /\ Strip(cp_results.matches[1].competitor_product)
           = competitor_products[competitor_sites[2]][1]

\* C26: compare_products and find_matches leave every reference and
\* candidate listing passed to them unchanged: no step adds, removes or
\* alters a field of the caller's records; similarity_score and the source
\* tag are placed on copies only.
C26_CallerListingsUnchanged ==
    [][/\ farm2bag_products' = farm2bag_products
       /\ competitor_products' = competitor_products
       /\ target_product' = target_product
       /\ candidate_products' = candidate_products]_vars

-----------------------------------------------------------------------------
(* The loop of compare_products run by concurrent workers: the candidates  *)
(* are tagged once, every worker takes reference items nobody has taken,   *)
(* runs find_matches and calculate_price_difference on each, and puts the  *)
(* outcome in the slot of the item's position; the two result lists are    *)
(* put together from the slots when every slot is filled.                  *)

\* the number of workers
NumWorkers == 2

Workers == 1..NumWorkers

\* the body of the loop for one reference item, given what find_matches
\* returned for it: what it appends to either list
CompareOne(product, matches) ==
    IF matches # <<>>
    THEN [matches |->
              <<Put(calculate_price_difference(product, matches[1]),
                    "all_matches", Take(matches, 3))>>,
          no_matches |-> <<>>]
    ELSE [matches |-> <<>>,
          no_matches |-> <<[product |-> product,
                            reason |-> "No similar products found"]>>]

\* the outcomes of the slots, appended in the given order of positions
RECURSIVE Gather(_, _)
Gather(slots, order) ==
    IF order = <<>> THEN [matches |-> <<>>, no_matches |-> <<>>]
    ELSE LET one  == slots[Head(order)][1]
             rest == Gather(slots, Tail(order))
         IN  [matches |-> one.matches \o rest.matches,
              no_matches |-> one.no_matches \o rest.no_matches]

CollectByCompletion(slots, done) == Gather(slots, done)

\* the result lists hold the outcomes in the order of farm2bag_products
CollectByPosition(slots, done) == Gather(slots, [i \in DOMAIN slots |-> i])

ShardedResults(slots, done) ==
    LET collected == CollectByPosition(slots, done)
    IN  [matches |-> collected.matches,
         no_matches |-> collected.no_matches,
         statistics |-> calculate_statistics(collected.matches),
         price_analysis |-> analyze_pricing(collected.matches)]

\* what one site lists
ShardedListings == {<<CarrotJiomart, MilkNoBrand>>, <<CarrotBigbasket>>}

ShardedInit ==
    /\ farm2bag_products \in BSeq(CompareReferences, MaxReferences)
    /\ competitor_sites \in {s \in SiteOrders : Len(s) = 2}
    /\ competitor_products \in [Range(competitor_sites) -> ShardedListings]
    /\ cp_config \in CompareConfigs
    /\ cp_results = <<>>
    /\ cp_pc = "idle"
    /\ sh_pool = <<>>
    /\ sh_task = [w \in Workers |-> 0]
    /\ sh_found = [w \in Workers |-> <<>>]
    /\ sh_slot = <<>>
    /\ sh_done = <<>>
    /\ sh_results = <<>>
    /\ sh_pc = "ready"

ShardedIdle ==
    /\ sh_pool = <<>>
    /\ sh_task = <<>>
    /\ sh_found = <<>>
    /\ sh_slot = <<>>
    /\ sh_done = <<>>
    /\ sh_results = <<>>
    /\ sh_pc = "idle"

\* the first loop of compare_products: tag the candidates, build the pool
TagCandidates ==
    /\ sh_pc = "ready"
    /\ competitor_products' = TaggedProducts(competitor_products)
    /\ sh_pool' = AllCompetitorProducts(competitor_sites, competitor_products)
    /\ sh_slot' = [i \in DOMAIN farm2bag_products |-> <<>>]
    /\ sh_pc' = "comparing"
    /\ UNCHANGED <<farm2bag_products, competitor_sites, cp_config, cp_results,
                   cp_pc, sh_task, sh_found, sh_done, sh_results>>

Taken == {sh_task[w] : w \in Workers} \cup Range(sh_done)

\* a free worker takes any reference item that nobody has taken
TakeItem(w) ==
    /\ sh_pc = "comparing"
    /\ sh_task[w] = 0
    /\ \E i \in DOMAIN farm2bag_products \ Taken :
          sh_task' = [sh_task EXCEPT ![w] = i]
    /\ UNCHANGED <<compareVars, sh_pool, sh_found, sh_slot, sh_done,
                   sh_results, sh_pc>>

\* the worker runs find_matches for its item against the shared pool
MatchItem(w) ==
    /\ sh_pc = "comparing"
    /\ sh_task[w] # 0
    /\ sh_found[w] = <<>>
    /\ sh_found' = [sh_found EXCEPT ![w] =
           <<find_matches(farm2bag_products[sh_task[w]], sh_pool, cp_config)>>]
    /\ UNCHANGED <<compareVars, sh_pool, sh_task, sh_slot, sh_done,
                   sh_results, sh_pc>>

\* the worker computes the price difference and fills the item's slot
StoreItem(w) ==
    /\ sh_pc = "comparing"
    /\ sh_found[w] # <<>>
    /\ sh_slot' = [sh_slot EXCEPT ![sh_task[w]] =
           <<CompareOne(farm2bag_products[sh_task[w]], sh_found[w][1])>>]
    /\ sh_done' = Append(sh_done, sh_task[w])
    /\ sh_task' = [sh_task EXCEPT ![w] = 0]
    /\ sh_found' = [sh_found EXCEPT ![w] = <<>>]
    /\ UNCHANGED <<compareVars, sh_pool, sh_results, sh_pc>>

\* every slot is filled: the results are collected and the statistics
\* calculated
CollectResults ==
    /\ sh_pc = "comparing"
    /\ Len(sh_done) = Len(farm2bag_products)
    /\ sh_results' = ShardedResults(sh_slot, sh_done)
    /\ sh_pc' = "collected"
    /\ UNCHANGED <<compareVars, sh_pool, sh_task, sh_found, sh_slot, sh_done>>

Sharded ==
    \/ TagCandidates
    \/ \E w \in Workers : TakeItem(w)
    \/ \E w \in Workers : MatchItem(w)
    \/ \E w \in Workers : StoreItem(w)
    \/ CollectResults

-----------------------------------------------------------------------------
(* Claims about sharded comparison *)

SequentialResults ==
    compare_products(farm2bag_products, competitor_sites, competitor_products,
                     cp_config)

-----------------------------------------------------------------------------
(* Python values held by raw listings, and the outcome of a call *)

\* the characters of a text, e.g. Chars("kg") = <<"k", "g">>
Chars(s) == [i \in 1..Len(s) |-> SubSeq(s, i, i)]

None == [type |-> "NoneType"]

Str(s) == [type |-> "str", text |-> s]

Float(x) == [type |-> "float", number |-> x]

IsStr(v) == v.type = "str"

\* bool(v): None, '' and 0.0 are false
Truthy(v) ==
    CASE v.type = "NoneType" -> FALSE
      [] v.type = "str"      -> v.text # <<>>
      [] v.type = "float"    -> v.number.n # 0

\* a call that returned v, and a call that left by an exception
Ok(v) == [raised |-> FALSE, value |-> v]

Raise(e) == [raised |-> TRUE, error |-> e]

-----------------------------------------------------------------------------
(* str methods and the regular expressions of the rules *)

UpperCase == Chars("ABCDEFGHIJKLMNOPQRSTUVWXYZ")

LowerCase == Chars("abcdefghijklmnopqrstuvwxyz")

Digits == Chars("0123456789")

Whitespace == {" ", "\t", "\n"}

IsDigit(c) == c \in Range(Digits)

\* \w
IsWordChar(c) == c \in Range(UpperCase) \cup Range(LowerCase) \cup Range(Digits) \cup {"_"}

LowerChar(c) ==
    IF c \in Range(UpperCase)
    THEN LowerCase[CHOOSE i \in DOMAIN UpperCase : UpperCase[i] = c]
    ELSE c

\* s.lower()
lower(s) == [i \in DOMAIN s |-> LowerChar(s[i])]

RECURSIVE lstrip(_)
lstrip(s) == IF s # <<>> /\ Head(s) \in Whitespace THEN lstrip(Tail(s)) ELSE s

\* s.strip()
strip(s) == Reverse(lstrip(Reverse(lstrip(s))))

\* s.replace(old, '') for a one-character old
RemoveChar(s, old) == SelectSeq(s, LAMBDA c : c # old)

\* s[i:] starts with w
StartsWith(s, i, w) ==
    /\ i + Len(w) - 1 <= Len(s)
    /\ SubSeq(s, i, i + Len(w) - 1) = w

\* w in s
Contains(s, w) == \E i \in 1..(Len(s) + 1) : StartsWith(s, i, w)

\* re.sub(r'\s+', replacement, s)
RECURSIVE SubWhitespace(_, _)
SubWhitespace(s, replacement) ==
    IF s = <<>> THEN <<>>
    ELSE IF Head(s) \in Whitespace
         THEN replacement \o SubWhitespace(lstrip(s), replacement)
         ELSE <<Head(s)>> \o SubWhitespace(Tail(s), replacement)

\* the first of the alternatives that stands at s[i:] as a whole word, or <<>>
WordAt(s, i, words) ==
    LET fits(w) == /\ StartsWith(lower(s), i, lower(w))
                   /\ (i = 1 \/ ~IsWordChar(s[i - 1]))
                   /\ (i + Len(w) > Len(s) \/ ~IsWordChar(s[i + Len(w)]))
        found   == {k \in DOMAIN words : fits(words[k])}
    IN  IF found = {} THEN <<>>
        ELSE words[CHOOSE k \in found : \A other \in found : k <= other]

\* re.sub(r'\b(w1|w2|...)\b', replacement, s[i-1:], flags=re.IGNORECASE)
RECURSIVE SubWords(_, _, _, _)
SubWords(s, i, words, replacement) ==
    IF i > Len(s) THEN <<>>
    ELSE LET w == WordAt(s, i, words)
         IN  IF w # <<>>
             THEN replacement \o SubWords(s, i + Len(w), words, replacement)
             ELSE <<s[i]>> \o SubWords(s, i + 1, words, replacement)

\* re.sub(pattern, replacement, s, flags=re.IGNORECASE) for the two shapes of
\* pattern the name cleaners have
re_sub(pattern, replacement, s) ==
    CASE pattern.kind = "words"      -> SubWords(s, 1, pattern.words, replacement)
      [] pattern.kind = "whitespace" -> SubWhitespace(s, replacement)

\* the position behind the digits that start at s[i]
RECURSIVE DigitRunEnd(_, _)
DigitRunEnd(s, i) ==
    IF i <= Len(s) /\ IsDigit(s[i]) THEN DigitRunEnd(s, i + 1) ELSE i

RECURSIVE SkipWhitespace(_, _)
SkipWhitespace(s, i) ==
    IF i <= Len(s) /\ s[i] \in Whitespace THEN SkipWhitespace(s, i + 1) ELSE i

\* \s*(suffix1|suffix2|...) matches at s[i:]
SuffixAt(s, i, suffixes) ==
    \E k \in DOMAIN suffixes : StartsWith(s, SkipWhitespace(s, i), suffixes[k])

\* group(1) of (\d+(?:\.\d+)?)\s*(suffixes) matched at s[i:], with the
\* fraction only when the pattern allows one; <<>> when it does not match there
GroupAt(s, i, pattern) ==
    LET j        == DigitRunEnd(s, i)
        k        == DigitRunEnd(s, j + 1)
        fraction == pattern.decimal /\ j <= Len(s) /\ s[j] = "." /\ k > j + 1
    IN  IF j = i THEN <<>>
        ELSE IF fraction /\ SuffixAt(s, k, pattern.suffixes)
             THEN SubSeq(s, i, k - 1)
             ELSE IF SuffixAt(s, j, pattern.suffixes)
                  THEN SubSeq(s, i, j - 1)
                  ELSE <<>>

\* re.search(pattern, s).group(1), leftmost match; <<>> when there is no match
RECURSIVE SearchFrom(_, _, _)
SearchFrom(s, i, pattern) ==
    IF i > Len(s) THEN <<>>
    ELSE IF GroupAt(s, i, pattern) # <<>> THEN GroupAt(s, i, pattern)
         ELSE SearchFrom(s, i + 1, pattern)

\* re.search(r'(\d+\.?\d*)', s).group(1); <<>> when s has no digit
RECURSIVE AnyNumberFrom(_, _)
AnyNumberFrom(s, i) ==
    IF i > Len(s) THEN <<>>
    ELSE IF IsDigit(s[i])
         THEN LET j == DigitRunEnd(s, i)
              IN  IF j <= Len(s) /\ s[j] = "."
                  THEN SubSeq(s, i, DigitRunEnd(s, j + 1) - 1)
                  ELSE SubSeq(s, i, j - 1)
         ELSE AnyNumberFrom(s, i + 1)

DigitValue(c) == (CHOOSE i \in DOMAIN Digits : Digits[i] = c) - 1

RECURSIVE NatOf(_, _)
NatOf(s, acc) ==
    IF s = <<>> THEN acc ELSE NatOf(Tail(s), 10 * acc + DigitValue(Head(s)))

RECURSIVE Pow10(_)
Pow10(k) == IF k = 0 THEN 1 ELSE 10 * Pow10(k - 1)

\* float(text) for digits with an optional point: '500', '1.5', '2.'
ParseFloat(text) ==
    LET whole    == SelectSeq(text, IsDigit)
        point    == IF \E i \in DOMAIN text : text[i] = "."
                    THEN CHOOSE i \in DOMAIN text : text[i] = "."
                    ELSE Len(text) + 1
    IN  Rat(NatOf(whole, 0), Pow10(Len(text) - point + (IF point > Len(text) THEN 1 ELSE 0)))

RECURSIVE DigitsOf(_)
DigitsOf(n) ==
    IF n < 10 THEN <<Digits[n + 1]>> ELSE DigitsOf(n \div 10) \o <<Digits[(n % 10) + 1]>>

\* the decimals of the fraction num/den < 1, den a power of ten, without
\* trailing zeros
RECURSIVE DecimalsOf(_, _)
DecimalsOf(num, den) ==
    IF num = 0 THEN <<>>
    ELSE <<Digits[((10 * num) \div den) + 1]>> \o DecimalsOf((10 * num) % den, den)

\* str(x) of a float with a short decimal expansion: '2.0', '0.5', '-1.25'
FormatFloat(x) ==
    LET whole    == Abs(x.n) \div x.d
        decimals == DecimalsOf(Abs(x.n) % x.d, x.d)
    IN  (IF x.n < 0 THEN <<"-">> ELSE <<>>)
            \o DigitsOf(whole) \o <<".">>
            \o (IF decimals = <<>> THEN <<"0">> ELSE decimals)

\* str(v)
PyStr(v) ==
    CASE v.type = "str"      -> v.text
      [] v.type = "NoneType" -> Chars("None")
      [] v.type = "float"    -> FormatFloat(v.number)

-----------------------------------------------------------------------------
(* ProductNormalizer *)

\* the rules of the unit tests' normalizer.  A name cleaner's pattern is
\* either \b(words)\b or \s+; a size pattern is a number, with a fraction
\* where the pattern has one, then \s* and one of the suffixes.
SampleRules ==
    [unit_mappings |->
        Dict(<<<<Chars("kilogram"), Chars("kg")>>, <<Chars("grams"), Chars("g")>>,
               <<Chars("litre"), Chars("liter")>>,
               <<Chars("pieces"), Chars("piece")>>>>),
     brand_aliases |->
        <<[canonical |-> Chars("farm2bag"),
           aliases |-> <<Chars("farm2bag"), Chars("farm 2 bag"),
                         Chars("farm2bag fresh")>>],
          [canonical |-> Chars("amul"),
           aliases |-> <<Chars("amul"), Chars("amul dairy")>>]>>,
     category_mappings |->
        Dict(<<<<Chars("vegetables"), Chars("vegetables")>>,
               <<Chars("fresh vegetables"), Chars("vegetables")>>,
               <<Chars("fruits"), Chars("fruits")>>,
               <<Chars("dairy products"), Chars("dairy")>>>>),
     name_cleaners |->
        <<[pattern |-> [kind |-> "words",
                        words |-> <<Chars("fresh"), Chars("organic"),
                                    Chars("premium")>>],
           replacement |-> <<>>],
          [pattern |-> [kind |-> "whitespace"], replacement |-> Chars(" ")]>>,
     size_patterns |->
        <<[pattern |-> [decimal |-> TRUE, suffixes |-> <<Chars("g")>>],
           unit_type |-> Chars("weight"), conversion |-> Rat(1, 1000)],
          [pattern |-> [decimal |-> TRUE, suffixes |-> <<Chars("kg")>>],
           unit_type |-> Chars("weight"), conversion |-> RInt(1)],
          [pattern |-> [decimal |-> FALSE,
                        suffixes |-> <<Chars("piece"), Chars("pc")>>],
           unit_type |-> Chars("count"), conversion |-> RInt(1)]>>]

\* a rules dictionary without any of the five tables
EmptyRules == [comparison |-> <<>>]

RuleSets == {SampleRules, EmptyRules}

RECURSIVE ApplyCleaners(_, _)
ApplyCleaners(cleaners, normalized) ==
    IF cleaners = <<>> THEN normalized
    ELSE ApplyCleaners(Tail(cleaners),
                       re_sub(Head(cleaners).pattern, Head(cleaners).replacement,
                              normalized))

NameWithoutFinalTrim(self, name) ==
    IF ~Truthy(name) THEN Ok(<<>>)
    ELSE IF ~IsStr(name) THEN Raise("AttributeError")
    ELSE Ok(SubWhitespace(
                ApplyCleaners(Get(self, "name_cleaners", <<>>),
                              strip(lower(name.text))),
                Chars(" ")))

normalize_name(self, name) ==
    IF ~Truthy(name) THEN Ok(<<>>)
    ELSE IF ~IsStr(name) THEN Raise("AttributeError")
    ELSE Ok(strip(SubWhitespace(
                ApplyCleaners(Get(self, "name_cleaners", <<>>),
                              strip(lower(name.text))),
                Chars(" "))))

AliasSpelledAs(brand_lower, aliases) ==
    \E alias \in Range(aliases) : alias = brand_lower

\* brand_lower in [alias.lower() for alias in aliases]
AliasListed(brand_lower, aliases) ==
    \E alias \in Range(aliases) : lower(alias) = brand_lower

normalize_brand(self, brand) ==
    IF ~Truthy(brand) THEN Ok(<<>>)
    ELSE IF ~IsStr(brand) THEN Raise("AttributeError")
    ELSE LET brand_lower   == strip(lower(brand.text))
             brand_aliases == Get(self, "brand_aliases", <<>>)
             listed == {k \in DOMAIN brand_aliases :
                           AliasListed(brand_lower, brand_aliases[k].aliases)}
         IN  IF listed = {} THEN Ok(brand_lower)
             ELSE Ok(brand_aliases[CHOOSE k \in listed :
                                       \A other \in listed : k <= other].canonical)

normalize_category(self, category) ==
    IF ~Truthy(category) THEN Ok(Chars("general"))
    ELSE IF ~IsStr(category) THEN Raise("AttributeError")
    ELSE LET category_lower == strip(lower(category.text))
         IN  Ok(Get(Get(self, "category_mappings", <<>>),
                    category_lower, category_lower))

SizeConverted(pattern_config, group, unit) ==
    RMul(ParseFloat(group), pattern_config.conversion)

\* the number a matched size pattern gives
SizeOfMatch(pattern_config, group, unit) ==
    IF pattern_config.unit_type # <<>>
          /\ Contains(lower(unit), pattern_config.unit_type)
    THEN RMul(ParseFloat(group), pattern_config.conversion)
    ELSE ParseFloat(group)

RECURSIVE SizeFromPatterns(_, _, _)
SizeFromPatterns(size_patterns, size_str, unit) ==
    IF size_patterns = <<>>
    THEN LET group == AnyNumberFrom(size_str, 1)
         IN  IF group # <<>> THEN ParseFloat(group) ELSE RInt(1)
    ELSE LET group == SearchFrom(size_str, 1, Head(size_patterns).pattern)
         IN  IF group # <<>>
             THEN SizeOfMatch(Head(size_patterns), group, unit)
             ELSE SizeFromPatterns(Tail(size_patterns), size_str, unit)

extract_size_value(self, size, unit) ==
    IF ~Truthy(size) THEN RInt(1)
    ELSE SizeFromPatterns(Get(self, "size_patterns", <<>>),
                          RemoveChar(lower(PyStr(size)), ","), unit)

\* the pair (normalized_unit, size_value)
normalize_unit_and_size(self, unit, size) ==
    LET unit_or_piece == IF Truthy(unit) THEN unit ELSE Str(Chars("piece"))
        size_or_one   == IF Truthy(size) THEN size ELSE Str(Chars("1"))
    IN  IF ~IsStr(unit_or_piece) THEN Raise("AttributeError")
        ELSE LET unit_lower == strip(lower(unit_or_piece.text))
             IN  Ok([unit |-> Get(Get(self, "unit_mappings", <<>>),
                                  unit_lower, unit_lower),
                     size |-> extract_size_value(self, size_or_one, unit_lower)])

\* a text price is handed to self._parse_price, which the class does not have
calculate_price_per_unit(price, unit, size) ==
    IF IsStr(price) THEN Raise("AttributeError")
    ELSE IF ~Truthy(price) \/ size.n = 0 THEN Ok(Zero)
    ELSE Ok(RDiv(price.number, size))

NormalizedKeys ==
    {"normalized_name", "normalized_unit", "normalized_size",
     "normalized_brand", "normalized_category", "price_per_unit"}

normalize_product(self, product) ==
    LET name     == normalize_name(self, Get(product, "name", Str(<<>>)))
        measure  == normalize_unit_and_size(self, Get(product, "unit", Str(<<>>)),
                                            Get(product, "size", Str(<<>>)))
        brand    == normalize_brand(self, Get(product, "brand", Str(<<>>)))
        category == normalize_category(self, Get(product, "category", Str(<<>>)))
        per_unit == calculate_price_per_unit(Get(product, "price", Float(Zero)),
                                             measure.value.unit, measure.value.size)
    IN  IF name.raised THEN name
        ELSE IF measure.raised THEN measure
        ELSE IF brand.raised THEN brand
        ELSE IF category.raised THEN category
        ELSE IF per_unit.raised THEN per_unit
        ELSE Ok(Update(product,
                       [normalized_name     |-> Str(name.value),
                        normalized_unit     |-> Str(measure.value.unit),
                        normalized_size     |-> Float(measure.value.size),
                        normalized_brand    |-> Str(brand.value),
                        normalized_category |-> Str(category.value),
                        price_per_unit      |-> Float(per_unit.value)]))

\* the except branch of normalize_batch: the statements that write the
\* minimal normalization into the caller's product.  .lower() raises on a
\* name or brand that is not text, with the earlier writes already made.
MinimalNormalization(product) ==
    LET name   == Get(product, "name", Str(<<>>))
        named  == Update(product,
                         [normalized_name |-> Str(lower(name.text)),
                          normalized_unit |->
                              Get(product, "unit", Str(Chars("piece"))),
                          normalized_size |-> Float(RInt(1))])
        brand  == Get(product, "brand", Str(<<>>))
    IN  IF ~IsStr(name) THEN [raised |-> TRUE, product |-> product]
        ELSE IF ~IsStr(brand) THEN [raised |-> TRUE, product |-> named]
        ELSE [raised |-> FALSE,
              product |->
                  Update(named,
                         [normalized_brand |-> Str(lower(brand.text)),
                          normalized_category |->
                              Get(product, "category", Str(Chars("general"))),
                          price_per_unit |-> Get(product, "price", Float(Zero))])]

\* the loop of normalize_batch from product i on: the caller's list as the
\* loop leaves it, the list built so far, and whether an exception left it
RECURSIVE BatchFrom(_, _, _, _)
BatchFrom(self, products_now, i, normalized_products) ==
    IF i > Len(products_now)
    THEN [raised |-> FALSE, products |-> products_now,
          value |-> normalized_products]
    ELSE LET normalized == normalize_product(self, products_now[i])
             minimal    == MinimalNormalization(products_now[i])
             written    == [products_now EXCEPT ![i] = minimal.product]
         IN  IF ~normalized.raised
             THEN BatchFrom(self, products_now, i + 1,
                            Append(normalized_products, normalized.value))
             ELSE IF minimal.raised
                  THEN [raised |-> TRUE, products |-> written, value |-> <<>>]
                  ELSE BatchFrom(self, written, i + 1,
                                 Append(normalized_products, minimal.product))

normalize_batch(self, batch) == BatchFrom(self, batch, 1, <<>>)

-----------------------------------------------------------------------------
(* The raw listings the normalizer is exercised on *)

\* marks a key the raw listing does not have
Absent == [type |-> "absent"]

Raw(name, price, unit, size, brand, category) ==
    LET fields == [name |-> name, price |-> price, unit |-> unit,
                   size |-> size, brand |-> brand, category |-> category]
    IN  [k \in {f \in DOMAIN fields : fields[f] # Absent} |-> fields[k]]

Text(s) == Str(Chars(s))

NamePool ==
    {Absent, None, Text(""), Text("  Fresh  Organic Tomatoes "), Text("Amul Milk")}

PricePool ==
    {Absent, None, Float(RInt(45)), Float(Zero), Text("$45.50"), Text("")}

\* unit and size
MeasurePool ==
    {<<Absent, Absent>>, <<Text("Kilogram"), Text("1.5 kg")>>,
     <<Text("g"), Text("500g")>>, <<Text("weight"), Text("2,500 g")>>,
     <<Text("pieces"), Text("0 pcs")>>, <<None, Float(Rat(5, 2))>>}

\* brand and category
LabelPool ==
    {<<Absent, Absent>>, <<Text("Farm 2 Bag"), Text("Fresh Vegetables")>>,
     <<Text(""), Text("")>>, <<None, Text(" Dairy Products ")>>}

RawPool ==
    {Raw(name, price, measure[1], measure[2], label[1], label[2]) :
        name \in NamePool, price \in PricePool,
        measure \in MeasurePool, label \in LabelPool}

\* the listings of test_normalize_batch_with_errors, and listings whose
\* price is text as the runner's competitor listings have it
GoodProduct ==
    Raw(Text("Good Product"), Float(RInt(50)), Text("kg"), Text("1"),
        Text("farm2bag"), Text("vegetables"))

IncompleteProduct ==
    Raw(Text("Incomplete Product"), Absent, Absent, Absent, Absent, Absent)

TextPriceProduct ==
    Raw(Text("Fresh Tomatoes"), Text("50.00"), Text("kg"), Text("500g"),
        Text("Farm 2 Bag"), Text("Fresh Vegetables"))

BareTextPriceProduct ==
    Raw(Text("Milk"), Text("45"), Text(""), Absent, Absent, Text(""))

NamelessTextPriceProduct ==
    Raw(None, Text("45"), Text("kg"), Text("1"), Text("amul"), Text("dairy"))

BrandlessTextPriceProduct ==
    Raw(Text("Milk"), Text("45"), Text("kg"), Text("1"), None, Text("dairy"))

BatchPool ==
    {GoodProduct, IncompleteProduct, TextPriceProduct, BareTextPriceProduct,
     NamelessTextPriceProduct, BrandlessTextPriceProduct}

\* the longest list handed to normalize_batch
MaxBatch == 2

-----------------------------------------------------------------------------
(* normalize_product and normalize_batch, each called once *)

NormalizeInit ==
    /\ raw_product \in RawPool
    /\ np_result = <<>>
    /\ np_pc = "ready"

NormalizeIdle ==
    /\ raw_product = <<>>
    /\ np_result = <<>>
    /\ np_pc = "idle"

BatchInit ==
    /\ raw_products \in BSeq(BatchPool, MaxBatch)
    /\ nb_result = <<>>
    /\ nb_pc = "ready"

BatchIdle ==
    /\ raw_products = <<>>
    /\ nb_result = <<>>
    /\ nb_pc = "idle"

NormalizerIdle == rules = EmptyRules /\ NormalizeIdle /\ BatchIdle

NormalizeProduct ==
    /\ np_pc = "ready"
    /\ LET normalized == normalize_product(rules, raw_product)
       IN  /\ np_pc' = IF normalized.raised THEN "raised" ELSE "returned"
           /\ np_result' = IF normalized.raised THEN <<>> ELSE normalized.value
    /\ UNCHANGED <<rules, raw_product, raw_products, nb_result, nb_pc>>

NormalizeBatch ==
    /\ nb_pc = "ready"
    /\ LET batch == normalize_batch(rules, raw_products)
       IN  /\ nb_pc' = IF batch.raised THEN "raised" ELSE "returned"
           /\ raw_products' = batch.products
           /\ nb_result' = batch.value
    /\ UNCHANGED <<rules, raw_product, np_result, np_pc>>

-----------------------------------------------------------------------------
(* ScraperBase._parse_price *)

\* the three characters of the currency symbol as the source spells it
CurrencySymbol == <<"U+00E2", "U+201A", "U+00B9">>

\* s.replace(old, '')
RECURSIVE Remove(_, _)
Remove(s, old) ==
    IF s = <<>> THEN <<>>
    ELSE IF StartsWith(s, 1, old) THEN Remove(SubSeq(s, Len(old) + 1, Len(s)), old)
         ELSE <<Head(s)>> \o Remove(Tail(s), old)

\* the float returned; a price_text that is not text has no replace(), and
\* the AttributeError is caught
_parse_price(price_text) ==
    IF ~Truthy(price_text) THEN Zero
    ELSE IF ~IsStr(price_text) THEN Zero
    ELSE LET cleaned ==
                 strip(Remove(Remove(Remove(price_text.text, CurrencySymbol),
                                     <<"$">>), <<",">>))
             match == AnyNumberFrom(cleaned, 1)
         IN  IF match # <<>> THEN ParseFloat(match) ELSE Zero

-----------------------------------------------------------------------------
(* Claims about the normalizer *)

\* C4: for every raw listing, whatever fields are absent, empty or free
\* text (a text price included), normalize_product returns a canonical
\* listing, one that carries the six normalized fields, and never raises.
C4_NormalizeNeverRaises ==
    np_pc \in {"returned", "raised"} =>
        /\ np_pc = "returned"
        /\ NormalizedKeys \subseteq DOMAIN np_result

\* the raw listing a record of the batch was before anything was written to it
Original(record) == Without(record, NormalizedKeys)

\* a record normalized with the defaults: a text name, size 1.0, a unit and
\* a category that are not empty, and a per-unit price that is a number >= 0
HasDefaults(record) ==
    /\ NormalizedKeys \subseteq DOMAIN record
    /\ IsStr(record.normalized_name)
    /\ record.normalized_size = Float(RInt(1))
    /\ IsStr(record.normalized_unit) /\ Truthy(record.normalized_unit)
    /\ IsStr(record.normalized_category) /\ Truthy(record.normalized_category)
    /\ record.price_per_unit.type = "float"
    /\ RGeq(record.price_per_unit.number, Zero)

\* C5: normalize_batch returns one record per input record, in input order;
\* an item whose normalization fails does not abort the batch and is not
\* dropped, it is included normalized with the defaults.
C5_BatchKeepsEveryItem ==
    nb_pc \in {"returned", "raised"} =>
        /\ nb_pc = "returned"
        /\ Len(nb_result) = Len(raw_products)
        /\ \A i \in DOMAIN nb_result :
              /\ Original(nb_result[i]) = Original(raw_products[i])
              /\ normalize_product(rules, Original(raw_products[i])).raised
                    => HasDefaults(nb_result[i])

RawPrice == Get(raw_product, "price", Float(Zero))

\* C12: a text price that reaches calculate_price_per_unit is converted as
\* ScraperBase._parse_price converts it: the listing comes back with the
\* per-unit price of the parsed number, 0.0 for a text without a number.
C12_TextPriceParsedAsIngestion ==
    (np_pc \in {"returned", "raised"} /\ IsStr(RawPrice)) =>
        /\ np_pc = "returned"
        /\ np_result.price_per_unit =
               Float(calculate_price_per_unit(
                         Float(_parse_price(RawPrice)),
                         np_result.normalized_unit.text,
                         np_result.normalized_size.number).value)

\* the number a raw price stands for: the number itself, 0.0 for a missing
\* or None price, and what _parse_price makes of a text
PriceValue(price) ==
    IF IsStr(price) THEN _parse_price(price)
    ELSE IF price.type = "float" THEN price.number
    ELSE Zero

\* the per-unit price of the returned listing is price / normalized_size
\* when neither is 0, 0.0 when either is, and never negative
PerUnitAsDefined ==
    LET price    == PriceValue(RawPrice)
        size     == np_result.normalized_size.number
        per_unit == np_result.price_per_unit
    IN  /\ per_unit.type = "float"
        /\ (price.n = 0 \/ size.n = 0) => per_unit.number = Zero
        /\ (price.n # 0 /\ size.n # 0) => per_unit.number = RDiv(price, size)
        /\ RGeq(per_unit.number, Zero)

\* C13: every raw listing gets a canonical listing whose price_per_unit is
\* price / normalized_size when both are non-zero, 0.0 when the size or the
\* price is 0, and non-negative in every case.
C13_PerUnitPriceOfEveryListing ==
    np_pc \in {"returned", "raised"} => (np_pc = "returned" /\ PerUnitAsDefined)

\* normalize_unit_and_size on the unit and the size of the raw listing, the
\* first thing normalize_product computes from them
Measure ==
    normalize_unit_and_size(rules, Get(raw_product, "unit", Str(<<>>)),
                            Get(raw_product, "size", Str(<<>>)))

\* the size is missing, None, '' or 0, or its text holds no digit
Unparseable(size) ==
    ~Truthy(size) \/ AnyNumberFrom(lower(PyStr(size)), 1) = <<>>

\* C20: for every unit and size input the normalized_size that
\* normalize_unit_and_size produces is a positive number, and it is 1.0 when
\* the size is empty or holds no parseable number.
C20_SizePositive ==
    np_pc \in {"returned", "raised"} =>
        /\ ~Measure.raised
        /\ RLt(Zero, Measure.value.size)
        /\ Unparseable(Get(raw_product, "size", Str(<<>>)))
              => Measure.value.size = RInt(1)

\* C27: normalize_product and normalize_batch never modify the raw listings
\* passed in: on the success path and on the failure path every output
\* record is a new record and the caller's records keep their fields.
C27_RawListingsUnchanged ==
    [][/\ raw_product' = raw_product
       /\ raw_products' = raw_products]_vars

\* the text of a field of the raw listing, '' when it is missing or None
RawText(field) ==
    LET v == Get(raw_product, field, Str(<<>>))
    IN  IF IsStr(v) THEN v.text ELSE <<>>

\* what the defaults alone make of the raw listing
DefaultsApplied ==
    LET size == Get(raw_product, "size", Str(<<>>))
        number == AnyNumberFrom(RemoveChar(lower(PyStr(size)), ","), 1)
    IN  /\ np_result.normalized_name
              = Str(strip(SubWhitespace(strip(lower(RawText("name"))), Chars(" "))))
        /\ np_result.normalized_brand = Str(strip(lower(RawText("brand"))))
        /\ np_result.normalized_category
              = Str(IF strip(lower(RawText("category"))) = <<>> THEN Chars("general")
                    ELSE strip(lower(RawText("category"))))
        /\ np_result.normalized_unit
              = Str(IF RawText("unit") = <<>> THEN Chars("piece")
                    ELSE strip(lower(RawText("unit"))))
        /\ np_result.normalized_size
              = Float(IF ~Truthy(size) \/ number = <<>> THEN RInt(1)
                      ELSE ParseFloat(number))

\* C24: with an empty rule set normalization of any listing does not fail
\* and applies only the defaults: name lower-cased, trimmed and
\* whitespace-collapsed; brand and category lower-cased and trimmed, the
\* category 'general' when empty; unit lower-cased, 'piece' when empty; size
\* the first bare number of the size string, or 1.0.
C24_EmptyRulesOnlyDefaults ==
    (rules = EmptyRules /\ np_pc \in {"returned", "raised"}) =>
        /\ np_pc = "returned"
        /\ DefaultsApplied

-----------------------------------------------------------------------------
(* The methods of ProductNormalizer, each called on its own *)

\* rules whose tables are not closed under themselves: a category maps to a
\* key of the table, the alias lists are spelled with capitals, a cleaner
\* writes a word that an earlier cleaner removes, and the size pattern of
\* the larger unit stands first
AlternativeRules ==
    [unit_mappings |-> Dict(<<<<Chars("kilogram"), Chars("kg")>>>>),
     brand_aliases |->
        <<[canonical |-> Chars("amul"),
           aliases |-> <<Chars("Amul"), Chars("AMUL Dairy")>>],
          [canonical |-> Chars("farm2bag"),
           aliases |-> <<Chars("Farm 2 Bag"), Chars("amul")>>]>>,
     category_mappings |->
        Dict(<<<<Chars("fresh vegetables"), Chars("vegetables")>>,
               <<Chars("vegetables"), Chars("produce")>>>>),
     name_cleaners |->
        <<[pattern |-> [kind |-> "words", words |-> <<Chars("premium")>>],
           replacement |-> <<>>],
          [pattern |-> [kind |-> "words", words |-> <<Chars("organic")>>],
           replacement |-> Chars("premium")],
          [pattern |-> [kind |-> "whitespace"], replacement |-> Chars(" ")]>>,
     size_patterns |->
        <<[pattern |-> [decimal |-> TRUE, suffixes |-> <<Chars("kg")>>],
           unit_type |-> Chars("weight"), conversion |-> RInt(1000)],
          [pattern |-> [decimal |-> TRUE, suffixes |-> <<Chars("g")>>],
           unit_type |-> <<>>, conversion |-> Rat(1, 1000)]>>]

FieldRuleSets == {SampleRules, EmptyRules, AlternativeRules}

FieldNamePool ==
    {None, Text(""), Text("  Fresh  Organic Tomatoes "), Text("Amul Milk"),
     Text("fresh-organic milk"), Text("Premium,Fresh"), Text("organic"),
     Text("red  tomato"), Text("amul milk")}

FieldBrandPool ==
    {None, Text(""), Text("  "), Text("Farm 2 Bag"), Text("AMUL DAIRY"),
     Text(" amul "), Text("Nestle"), Text("farm2bag fresh")}

FieldCategoryPool ==
    {None, Text(""), Text("  "), Text("Fresh Vegetables"),
     Text(" Dairy Products "), Text("Vegetables"), Text("Snacks"), Text("FRUITS")}

\* size and unit
FieldSizePool ==
    {<<Text("500g"), Chars("weight")>>, <<Text("500g"), Chars("g")>>,
     <<Text("2 kg 500 g"), Chars("weight")>>, <<Text("2 kg 500 g"), Chars("kg")>>,
     <<Text("1.5 KG"), Chars("net weight")>>, <<Text("3 pcs"), Chars("count")>>,
     <<Text("2,500 g"), Chars("weight")>>, <<Text("12"), Chars("weight")>>,
     <<Text("pack of 6"), Chars("piece")>>, <<Text("large"), Chars("kg")>>,
     <<Text(""), Chars("kg")>>, <<None, Chars("piece")>>}

FieldInit ==
    /\ nf_rules \in FieldRuleSets
    /\ \/ nf_method = "normalize_name" /\ nf_value \in FieldNamePool
             /\ nf_unit = <<>>
       \/ nf_method = "normalize_brand" /\ nf_value \in FieldBrandPool
             /\ nf_unit = <<>>
       \/ nf_method = "normalize_category" /\ nf_value \in FieldCategoryPool
             /\ nf_unit = <<>>
       \/ nf_method = "extract_size_value"
             /\ \E call \in FieldSizePool : nf_value = call[1] /\ nf_unit = call[2]
    /\ nf_text = <<>>
    /\ nf_size = Zero
    /\ nf_pc = "ready"

FieldIdle ==
    /\ nf_rules = EmptyRules
    /\ nf_method = "none"
    /\ nf_value = None
    /\ nf_unit = <<>>
    /\ nf_text = <<>>
    /\ nf_size = Zero
    /\ nf_pc = "idle"

\* a method that returns text has returned or raised
TextReturned(outcome) ==
    /\ nf_pc' = IF outcome.raised THEN "raised" ELSE "returned"
    /\ nf_text' = IF outcome.raised THEN <<>> ELSE outcome.value
    /\ UNCHANGED <<nf_rules, nf_method, nf_value, nf_unit, nf_size>>

NormalizeName ==
    /\ nf_pc = "ready" /\ nf_method = "normalize_name"
    /\ TextReturned(normalize_name(nf_rules, nf_value))

NormalizeBrand ==
    /\ nf_pc = "ready" /\ nf_method = "normalize_brand"
    /\ TextReturned(normalize_brand(nf_rules, nf_value))

NormalizeCategory ==
    /\ nf_pc = "ready" /\ nf_method = "normalize_category"
    /\ TextReturned(normalize_category(nf_rules, nf_value))

ExtractSizeValue ==
    /\ nf_pc = "ready" /\ nf_method = "extract_size_value"
    /\ nf_size' = extract_size_value(nf_rules, nf_value, nf_unit)
    /\ nf_pc' = "returned"
    /\ UNCHANGED <<nf_rules, nf_method, nf_value, nf_unit, nf_text>>

NormalizeField ==
    \/ NormalizeName
    \/ NormalizeBrand
    \/ NormalizeCategory
    \/ ExtractSizeValue

-----------------------------------------------------------------------------
(* Claims about the methods of ProductNormalizer *)

\* the argument lower-cased and trimmed, '' for None
LowerTrimmed == IF IsStr(nf_value) THEN strip(lower(nf_value.text)) ELSE <<>>

CategoryCalled == nf_method = "normalize_category" /\ nf_pc \in {"returned", "raised"}

\* C21: normalize_category returns 'general' whenever the category is absent
\* or empty after lower-casing and trimming; otherwise the mapping table's
\* value for the lower-cased, trimmed input, looked up once, or that input
\* itself when the table has no entry for it.  The result is never ''.
C21_CategoryNeverEmpty ==
    CategoryCalled =>
        LET category_mappings == Get(nf_rules, "category_mappings", <<>>)
        IN  /\ nf_pc = "returned"
            /\ nf_text # <<>>
            /\ LowerTrimmed = <<>> => nf_text = Chars("general")
            /\ LowerTrimmed # <<>> =>
                  nf_text = Get(category_mappings, LowerTrimmed, LowerTrimmed)

BrandCalled == nf_method = "normalize_brand" /\ nf_pc \in {"returned", "raised"}

\* the entries of the alias table one of whose spellings is, but for case,
\* the lower-cased and trimmed argument
ListingEntries ==
    LET brand_aliases == Get(nf_rules, "brand_aliases", <<>>)
    IN  {k \in DOMAIN brand_aliases :
            \E j \in DOMAIN brand_aliases[k].aliases :
                lower(brand_aliases[k].aliases[j]) = lower(LowerTrimmed)}

\* C22: normalize_brand returns the canonical brand one of whose listed
\* spellings equals, case-insensitively, the lower-cased and trimmed input
\* (the first such brand of the table); when no alias list contains it, the
\* lower-cased and trimmed input; for an empty brand the empty string.
C22_BrandByAlias ==
    BrandCalled =>
        LET brand_aliases == Get(nf_rules, "brand_aliases", <<>>)
        IN  /\ nf_pc = "returned"
            /\ ~Truthy(nf_value) => nf_text = <<>>
            /\ (Truthy(nf_value) /\ ListingEntries = {}) => nf_text = LowerTrimmed
            /\ (Truthy(nf_value) /\ ListingEntries # {}) =>
                  \E k \in ListingEntries :
                      /\ nf_text = brand_aliases[k].canonical
                      /\ \A other \in ListingEntries : k <= other

\* a brand in capitals found under a spelling that has capitals too
C22_Witness ==
    /\ BrandCalled
    /\ nf_rules = AlternativeRules
    /\ nf_value = Text("AMUL DAIRY")
    /\ nf_text = Chars("amul")

NameCalled == nf_method = "normalize_name" /\ nf_pc \in {"returned", "raised"}

\* the name returned, normalized once more with the same rules, is itself
Renormalized ==
    /\ nf_pc = "returned"
    /\ normalize_name(nf_rules, Str(nf_text)) = Ok(nf_text)

\* every cleaner of the rules puts nothing or one space where it matches
CleanersOnlyRemove(self) ==
    \A cleaner \in Range(Get(self, "name_cleaners", <<>>)) :
        cleaner.replacement \in {<<>>, <<" ">>}

\* s is lower-case and trimmed, has single spaces, and no cleaner of the
\* rules matches in it
Canonical(self, s) ==
    /\ s = strip(lower(s))
    /\ s = SubWhitespace(s, Chars(" "))
    /\ \A cleaner \in Range(Get(self, "name_cleaners", <<>>)) :
          re_sub(cleaner.pattern, <<"#">>, s) = s

SizeCalled == nf_method = "extract_size_value" /\ nf_pc \in {"returned", "raised"}

\* the size string as the patterns are tried on it
SizeString == RemoveChar(lower(PyStr(nf_value)), ",")

\* the positions of the configured size patterns that match the size string
MatchingPatterns ==
    LET size_patterns == Get(nf_rules, "size_patterns", <<>>)
    IN  {k \in DOMAIN size_patterns :
            SearchFrom(SizeString, 1, size_patterns[k].pattern) # <<>>}

\* C25: extract_size_value returns the captured number of the first pattern,
\* in configured order, that matches the size string, multiplied by that
\* entry's conversion factor iff the entry's unit-type tag is a substring of
\* the lower-cased unit; later patterns are not consulted.  If no pattern
\* matches it returns the first bare number of the string, and 1.0 if there
\* is none (or no size).
C25_FirstMatchingPattern ==
    SizeCalled =>
        LET size_patterns == Get(nf_rules, "size_patterns", <<>>)
            first  == CHOOSE k \in MatchingPatterns :
                          \A other \in MatchingPatterns : k <= other
            entry  == size_patterns[first]
            number == ParseFloat(SearchFrom(SizeString, 1, entry.pattern))
            tagged == /\ entry.unit_type # <<>>
                      /\ Contains(lower(nf_unit), entry.unit_type)
            bare   == AnyNumberFrom(SizeString, 1)
        IN  /\ nf_pc = "returned"
            /\ ~Truthy(nf_value) => nf_size = RInt(1)
            /\ (Truthy(nf_value) /\ MatchingPatterns # {}) =>
                  /\ tagged => nf_size = RMul(number, entry.conversion)
                  /\ ~tagged => nf_size = number
            /\ (Truthy(nf_value) /\ MatchingPatterns = {}) =>
                  /\ bare # <<>> => nf_size = ParseFloat(bare)
                  /\ bare = <<>> => nf_size = RInt(1)

\* a size that two patterns match, the second one further to the left: the
\* first pattern's number is returned, converted
C25_Witness ==
    /\ SizeCalled
    /\ nf_rules = SampleRules
    /\ nf_value = Text("2 kg 500 g")
    /\ nf_unit = Chars("weight")
    /\ MatchingPatterns = {1, 2}
    /\ nf_size = Rat(1, 2)

-----------------------------------------------------------------------------
(* Python floats as IEEE 754 binary64, for the arithmetic of               *)
(* calculate_statistics whose rounding shows in the result.  A number is   *)
(* [neg, exp, bits]: bits is a natural number in binary, most significant  *)
(* bit first, and the value is (-1)^neg * bits * 2^exp.  A float has       *)
(* exactly Precision bits, the first of them 1; 0.0 has no bits.  The      *)
(* exponents of the values handled here are far from the ends of the       *)
(* binary64 range, so nothing overflows and nothing is subnormal.          *)

\* the bits of a binary64 significand
Precision == 53

Zeros(k) == [i \in 1..k |-> 0]

\* b without its leading zeros
Trim(b) ==
    IF \A i \in DOMAIN b : b[i] = 0 THEN <<>>
    ELSE LET first == CHOOSE i \in DOMAIN b :
                          b[i] = 1 /\ \A j \in 1..(i - 1) : b[j] = 0
         IN  SubSeq(b, first, Len(b))

PadLeft(b, k) == Zeros(k - Len(b)) \o b

\* the carry into bit i of a + b + carry for bit lists of length n: a
\* position behind i makes one and the positions between pass it on
CarryInto(a, b, n, carry, i) ==
    \/ \E j \in (i + 1)..n :
          /\ a[j] + b[j] = 2
          /\ \A k \in (i + 1)..(j - 1) : a[k] + b[k] = 1
    \/ carry = 1 /\ \A k \in (i + 1)..n : a[k] + b[k] = 1

\* a + b + carry for bit lists of length n, as n + 1 bits
AddBits(a, b, n, carry) ==
    [i \in 1..(n + 1) |->
        LET c == IF CarryInto(a, b, n, carry, i - 1) THEN 1 ELSE 0
        IN  IF i = 1 THEN c ELSE (a[i - 1] + b[i - 1] + c) % 2]

\* the borrow from bit i of a - b for bit lists of length n
BorrowFrom(a, b, n, i) ==
    \E j \in (i + 1)..n :
        /\ a[j] < b[j]
        /\ \A k \in (i + 1)..(j - 1) : a[k] = b[k]

\* a - b for bit lists of length n, a >= b
SubBits(a, b, n) ==
    [i \in 1..n |->
        (a[i] - b[i] - (IF BorrowFrom(a, b, n, i) THEN 1 ELSE 0) + 2) % 2]

\* a < b for bit lists of one length
LessBits(a, b) ==
    \E i \in DOMAIN a :
        /\ a[i] < b[i]
        /\ \A j \in 1..(i - 1) : a[j] = b[j]

FloatZero == [neg |-> FALSE, exp |-> 0, bits |-> <<>>]

Negated(x) == IF x.bits = <<>> THEN x ELSE [x EXCEPT !.neg = ~x.neg]

\* the exact sum of two numbers
ExactAdd(x, y) ==
    LET e == IF x.exp < y.exp THEN x.exp ELSE y.exp
        a == x.bits \o Zeros(x.exp - e)
        b == y.bits \o Zeros(y.exp - e)
        n == IF Len(a) < Len(b) THEN Len(b) ELSE Len(a)
        p == PadLeft(a, n)
        q == PadLeft(b, n)
    IN  IF x.neg = y.neg
        THEN [neg |-> x.neg, exp |-> e, bits |-> Trim(AddBits(p, q, n, 0))]
        ELSE IF p = q THEN FloatZero
        ELSE IF LessBits(p, q)
             THEN [neg |-> y.neg, exp |-> e, bits |-> Trim(SubBits(q, p, n))]
             ELSE [neg |-> x.neg, exp |-> e, bits |-> Trim(SubBits(p, q, n))]

\* x < y, exactly
Less(x, y) ==
    LET d == ExactAdd(x, Negated(y)) IN d.bits # <<>> /\ d.neg

Leq(x, y) == ~Less(y, x)

Magnitude(x) == [x EXCEPT !.neg = FALSE]

\* the float nearest to x, a tie going to the one whose last bit is 0;
\* sticky tells that x stands for a number slightly larger in magnitude
RoundToFloat(x, sticky) ==
    LET n       == Len(x.bits)
        kept    == SubSeq(x.bits, 1, Precision)
        dropped == SubSeq(x.bits, Precision + 1, n)
        more    == sticky \/ \E i \in 2..Len(dropped) : dropped[i] = 1
        up      == dropped[1] = 1 /\ (more \/ kept[Precision] = 1)
        next    == AddBits(kept, Zeros(Precision), Precision, 1)
    IN  IF n = 0 THEN FloatZero
        ELSE IF n <= Precision
             THEN [neg |-> x.neg, exp |-> x.exp - (Precision - n),
                   bits |-> x.bits \o Zeros(Precision - n)]
        ELSE IF ~up
             THEN [neg |-> x.neg, exp |-> x.exp + (n - Precision), bits |-> kept]
        ELSE IF next[1] = 1
             THEN [neg |-> x.neg, exp |-> x.exp + (n - Precision) + 1,
                   bits |-> SubSeq(next, 1, Precision)]
             ELSE [neg |-> x.neg, exp |-> x.exp + (n - Precision),
                   bits |-> Tail(next)]

\* x + y of two floats
FloatAdd(x, y) == RoundToFloat(ExactAdd(x, y), FALSE)

\* x - y of two floats
FloatSub(x, y) == FloatAdd(x, Negated(y))

\* the bits of a natural number
RECURSIVE BitsOf(_)
BitsOf(n) == IF n = 0 THEN <<>> ELSE Append(BitsOf(n \div 2), n % 2)

\* float(n) for an int n >= 0 below 2^Precision
FloatOfInt(n) == RoundToFloat([neg |-> FALSE, exp |-> 0, bits |-> BitsOf(n)], FALSE)

\* the natural number that a list of at most 16 bits writes
RECURSIVE BitsValue(_)
BitsValue(bits) ==
    IF bits = <<>> THEN 0
    ELSE 2 * BitsValue(SubSeq(bits, 1, Len(bits) - 1)) + bits[Len(bits)]

\* bits divided by the natural number n, 0 < n < 2^15, in digits of 16
\* bits from the top; Len(bits) is a multiple of 16
RECURSIVE LongDivide(_, _, _, _, _)
LongDivide(bits, n, i, remainder, quotient) ==
    IF i > Len(bits) THEN [quotient |-> quotient, remainder |-> remainder]
    ELSE LET t == remainder * 65536 + BitsValue(SubSeq(bits, i, i + 15))
         IN  \* the tests make TLC evaluate the step before it descends
             IF Len(quotient) # i - 1 \/ t < 0 THEN <<>>
             ELSE LongDivide(bits, n, i + 16, t % n,
                             quotient \o PadLeft(BitsOf(t \div n), 16))

\* x / n of a float x and an int n > 0 (x / float(n), n a small number)
FloatDivInt(x, n) ==
    LET dividend == x.bits \o Zeros(2 * Precision)
        d == LongDivide(PadLeft(dividend, 16 * ((Len(dividend) + 15) \div 16)),
                        n, 1, 0, <<>>)
    IN  RoundToFloat([neg |-> x.neg, exp |-> x.exp - 2 * Precision,
                      bits |-> Trim(d.quotient)], d.remainder # 0)

\* the exact product of x and the natural number n
RECURSIVE ExactTimes(_, _)
ExactTimes(x, n) ==
    IF n = 0 THEN FloatZero
    ELSE LET twice == ExactTimes([x EXCEPT !.exp = @ + 1], n \div 2)
         IN  IF n % 2 = 1 THEN ExactAdd(twice, x) ELSE twice

\* x * n of a float x and an int n >= 0
FloatTimesInt(x, n) == RoundToFloat(ExactTimes(x, n), FALSE)

HexDigits == <<"0", "1", "2", "3", "4", "5", "6", "7", "8", "9",
               "a", "b", "c", "d", "e", "f">>

HexValue(c) == (CHOOSE i \in DOMAIN HexDigits : HexDigits[i] = c) - 1

RECURSIVE HexBits(_)
HexBits(digits) ==
    IF digits = <<>> THEN <<>>
    ELSE PadLeft(BitsOf(HexValue(Head(digits))), 4) \o HexBits(Tail(digits))

\* the float that float.hex() writes (-)0x1.<fraction>p<exponent>
FromHex(neg, fraction, exponent) ==
    [neg |-> neg, exp |-> exponent - (Precision - 1),
     bits |-> <<1>> \o HexBits(Chars(fraction))]

-----------------------------------------------------------------------------
(* PriceComparator.calculate_statistics with the percentage differences    *)
(* as binary64 floats                                                      *)

\* sum(values) up to Python 3.11: the floats added one after the other
RECURSIVE PlainSum(_, _)
PlainSum(values, total) ==
    IF values = <<>> THEN total
    ELSE PlainSum(Tail(values), FloatAdd(total, Head(values)))

\* sum(values) from Python 3.12 on: the rounding errors of the additions
\* are added up beside the total and put back at the end
RECURSIVE CompensatedSum(_, _, _)
CompensatedSum(values, total, c) ==
    IF values = <<>>
    THEN IF c.bits # <<>> THEN FloatAdd(total, c) ELSE total
    ELSE LET x    == Head(values)
             t    == FloatAdd(total, x)
             lost == IF Leq(Magnitude(x), Magnitude(total))
                     THEN FloatAdd(FloatSub(total, t), x)
                     ELSE FloatAdd(FloatSub(x, t), total)
         IN  CompensatedSum(Tail(values), t, FloatAdd(c, lost))

\* sum(price_differences) of the interpreter the program runs on
FloatSum(values, compensated) ==
    IF compensated THEN CompensatedSum(values, FloatZero, FloatZero)
    ELSE PlainSum(values, FloatZero)

FirstOf(values) == Head(values)

\* min(price_differences)
RECURSIVE FloatMin(_)
FloatMin(values) ==
    IF Len(values) = 1 THEN values[1]
    ELSE LET m == FloatMin(Tail(values))
         IN  IF Leq(Head(values), m) THEN Head(values) ELSE m

\* max(price_differences)
RECURSIVE FloatMax(_)
FloatMax(values) ==
    IF Len(values) = 1 THEN values[1]
    ELSE LET m == FloatMax(Tail(values))
         IN  IF Leq(m, Head(values)) THEN Head(values) ELSE m

RECURSIVE FloatInsert(_, _)
FloatInsert(s, x) ==
    IF s = <<>> THEN <<x>>
    ELSE IF Leq(Head(s), x) THEN <<Head(s)>> \o FloatInsert(Tail(s), x)
         ELSE <<x>> \o s

\* sorted(price_differences)
RECURSIVE FloatSorted(_)
FloatSorted(s) ==
    IF s = <<>> THEN <<>> ELSE FloatInsert(FloatSorted(Tail(s)), Head(s))

\* calculate_statistics(matches), its arithmetic in binary64
float_statistics(matches, compensated) ==
    IF matches = <<>>
    THEN [total_matches |-> 0,
          farm2bag_cheaper_count |-> 0,
          competitor_cheaper_count |-> 0,
          average_price_difference_percentage |-> FloatZero,
          max_savings_percentage |-> FloatZero,
          min_savings_percentage |-> FloatZero]
    ELSE LET price_differences ==
                 [i \in DOMAIN matches |->
                     matches[i].price_comparison.percentage_difference]
             farm2bag_cheaper ==
                 SelectSeq(matches, LAMBDA m : m.price_comparison.farm2bag_cheaper)
             total_matches == Len(matches)
         IN  [total_matches |-> total_matches,
              farm2bag_cheaper_count |-> Len(farm2bag_cheaper),
              competitor_cheaper_count |-> total_matches - Len(farm2bag_cheaper),
              farm2bag_cheaper_percentage |->
                  FloatTimesInt(FloatDivInt(FloatOfInt(Len(farm2bag_cheaper)),
                                            total_matches), 100),
              average_price_difference_percentage |->
                  FloatDivInt(FloatSum(price_differences, compensated),
                              Len(price_differences)),
              max_savings_percentage |-> FloatMin(price_differences),
              min_savings_percentage |-> FloatMax(price_differences),
              median_price_difference |->
                  FloatSorted(price_differences)
                      [Len(price_differences) \div 2 + 1]]

\* a record as test_calculate_statistics_with_matches builds it
FloatRecord(percentage_difference) ==
    [price_comparison |->
        [percentage_difference |-> percentage_difference,
         farm2bag_cheaper |-> percentage_difference.neg]]

\* the percentage differences -10.0, 5.0 and -2.0 of the test, and
\* -22.22222222222222 (35.0 against 45.0), -62.87142857142858 (25.99
\* against 70.0) and 12.5 (45.0 against 40.0)
FloatRecordPool ==
    {FloatRecord(FromHex(TRUE, "4000000000000", 3)),
     FloatRecord(FromHex(FALSE, "4000000000000", 2)),
     FloatRecord(FromHex(TRUE, "0000000000000", 1)),
     FloatRecord(FromHex(TRUE, "638e38e38e38e", 4)),
     FloatRecord(FromHex(TRUE, "f6f8af8af8afa", 5)),
     FloatRecord(FromHex(FALSE, "9000000000000", 3))}

\* the longest record list handed to calculate_statistics
MaxFloatRecords == 3

FloatStatisticsInit ==
    /\ fs_matches \in BSeq(FloatRecordPool, MaxFloatRecords)
    /\ fs_compensated \in BOOLEAN
    /\ fs_result = <<>>
    /\ fs_pc = "ready"

FloatStatisticsIdle ==
    /\ fs_matches = <<>>
    /\ fs_compensated = FALSE
    /\ fs_result = <<>>
    /\ fs_pc = "idle"

CalculateFloatStatistics ==
    /\ fs_pc = "ready"
    /\ fs_result' = float_statistics(fs_matches, fs_compensated)
    /\ fs_pc' = "returned"
    /\ UNCHANGED <<fs_matches, fs_compensated>>

-----------------------------------------------------------------------------
(* Claims about the statistics of a non-empty record list *)

FloatPercentageAt(i) == fs_matches[i].price_comparison.percentage_difference

\* max_savings is the smallest percentage difference, min_savings the
\* largest, and the median lies between the two
SavingsAreExtremes ==
    LET max_savings == fs_result["max_savings_percentage"]
        min_savings == fs_result["min_savings_percentage"]
        median      == fs_result["median_price_difference"]
    IN  /\ \E i \in DOMAIN fs_matches : FloatPercentageAt(i) = max_savings
        /\ \A i \in DOMAIN fs_matches : Leq(max_savings, FloatPercentageAt(i))
        /\ \E i \in DOMAIN fs_matches : FloatPercentageAt(i) = min_savings
        /\ \A i \in DOMAIN fs_matches : Leq(FloatPercentageAt(i), min_savings)
        /\ Leq(max_savings, median)
        /\ Leq(median, min_savings)

\* the exact sum of the percentage differences
RECURSIVE ExactSum(_)
ExactSum(values) ==
    IF values = <<>> THEN FloatZero
    ELSE ExactAdd(Head(values), ExactSum(Tail(values)))

\* |x - y| <= bound
Within(x, y, bound) ==
    /\ Leq(ExactAdd(x, Negated(y)), bound)
    /\ Leq(ExactAdd(y, Negated(x)), bound)

\* n * 2^-52 times the larger magnitude of the two extremes: what the
\* roundings of n - 1 additions and one division can add up to
RoundingBound ==
    LET max_savings == Magnitude(fs_result["max_savings_percentage"])
        min_savings == Magnitude(fs_result["min_savings_percentage"])
        largest     == IF Leq(max_savings, min_savings) THEN min_savings
                       ELSE max_savings
    IN  ExactTimes([largest EXCEPT !.exp = @ - (Precision - 1)],
                   Len(fs_matches))

\* C17 as stated: for a non-empty record list max_savings is the smallest
\* percentage difference and min_savings the largest, with
\* max_savings <= median <= min_savings and
\* max_savings <= average <= min_savings.
C17_AverageBetweenExtremes ==
    (fs_pc = "returned" /\ fs_matches # <<>>) =>
        /\ SavingsAreExtremes
        /\ Leq(fs_result["max_savings_percentage"],
               fs_result["average_price_difference_percentage"])
        /\ Leq(fs_result["average_price_difference_percentage"],
               fs_result["min_savings_percentage"])

\* C17 amended: max_savings is the smallest percentage difference,
\* min_savings the largest, max_savings <= median <= min_savings, and the
\* average is the arithmetic mean up to the rounding of the float sum and
\* division: n * average is within n times the rounding bound of the exact
\* sum, so the average lies between max_savings and min_savings up to that
\* bound and not always between them.
C17_AverageNearMean ==
    (fs_pc = "returned" /\ fs_matches # <<>>) =>
        LET n       == Len(fs_matches)
            average == fs_result["average_price_difference_percentage"]
        IN  /\ SavingsAreExtremes
            /\ Within(ExactTimes(average, n),
                      ExactSum([i \in DOMAIN fs_matches |-> FloatPercentageAt(i)]),
                      ExactTimes(RoundingBound, n))
            /\ Leq(ExactAdd(fs_result["max_savings_percentage"],
                            Negated(RoundingBound)), average)
            /\ Leq(average, ExactAdd(fs_result["min_savings_percentage"],
                                     RoundingBound))

\* three records of one percentage difference whose average comes out
\* above all three
C17_Witness ==
    /\ fs_pc = "returned"
    /\ Len(fs_matches) = 3
    /\ fs_result["max_savings_percentage"] = fs_result["min_savings_percentage"]
    /\ Less(fs_result["min_savings_percentage"],
            fs_result["average_price_difference_percentage"])

-----------------------------------------------------------------------------
(* Database.store_products and PriceComparisonRunner._store_data *)

\* the NOT NULL columns of the products table that a listing can leave
\* empty: the INSERT of such a listing raises and the listing is skipped
Insertable(product) ==
    /\ Get(product, "site", Text("")) # None
    /\ Get(product, "name", Text("")) # None

\* the listings of products that the INSERT accepts, in their order
Inserted(products) == SelectSeq(products, Insertable)

\* the row of the products table written for a listing
ProductRow(product, snapshot_date) ==
    [site |-> Get(product, "site", Text("")),
     name |-> Get(product, "name", Text("")),
     scraped_at |-> snapshot_date]

\* sites_scraped: product.get('site', 'unknown') of the listings stored
SitesOf(products) ==
    {Get(products[i], "site", Text("unknown")) : i \in DOMAIN products}

\* the two tables after store_products(products, snapshot_date)
store_products(products_table, snapshots, products, snapshot_date) ==
    IF products = <<>>
    THEN [products |-> products_table, snapshots |-> snapshots]
    ELSE LET stored == Inserted(products)
         IN  [products |->
                  products_table
                      \o [i \in DOMAIN stored |-> ProductRow(stored[i], snapshot_date)],
              \* INSERT OR REPLACE on the unique snapshot_date
              snapshots |->
                  Put(snapshots, snapshot_date,
                      [total_products |-> Len(stored),
                       sites_scraped |-> SitesOf(stored)])]

\* the listings of a site: one that is stored and one without a name
StoredPool(site) ==
    {[site |-> Text(site), name |-> Text("Tomatoes")],
     [site |-> Text(site), name |-> None]}

\* the most listings of one source
MaxStored == 2

StoreSiteOrders ==
    {<<>>, <<"jiomart">>, <<"bigbasket", "jiomart">>, <<"jiomart", "bigbasket">>}

\* the tables before the run: empty, or holding the snapshot of the day before
EarlierTables ==
    {[products |-> <<>>, snapshots |-> <<>>],
     [products |-> <<[site |-> Text("farm2bag"), name |-> Text("Tomatoes"),
                      scraped_at |-> "yesterday"]>>,
      snapshots |-> Put(<<>>, "yesterday",
                        [total_products |-> 1,
                         sites_scraped |-> {Text("farm2bag")}])]}

StoreInit ==
    /\ \E tables \in EarlierTables :
          db_products = tables.products /\ db_snapshots = tables.snapshots
    /\ db_comparisons = 0
    /\ sd_farm2bag \in BSeq(StoredPool("farm2bag"), MaxStored)
    /\ sd_sites \in StoreSiteOrders
    /\ sd_competitors \in
           [Range(sd_sites) -> BSeq(StoredPool("jiomart"), 1)
                                   \cup {<<p, p>> : p \in StoredPool("bigbasket")}]
    /\ sd_matches \in 0..1
    /\ sd_calls = 0
    /\ sd_pc = "ready"

StoreIdle ==
    /\ db_products = <<>>
    /\ db_snapshots = <<>>
    /\ db_comparisons = 0
    /\ sd_farm2bag = <<>>
    /\ sd_sites = <<>>
    /\ sd_competitors = <<>>
    /\ sd_matches = 0
    /\ sd_calls = 0
    /\ sd_pc = "idle"

\* self.database.store_products(farm2bag_products, today)
StoreFarm2bagProducts ==
    /\ sd_pc = "ready"
    /\ LET tables == store_products(db_products, db_snapshots, sd_farm2bag, "today")
       IN  /\ db_products' = tables.products
           /\ db_snapshots' = tables.snapshots
    /\ sd_calls' = 1
    /\ sd_pc' = IF sd_sites = <<>> THEN "comparisons" ELSE "storing"
    /\ UNCHANGED <<db_comparisons, sd_farm2bag, sd_sites, sd_competitors, sd_matches>>

\* self.database.store_products(products, today), for the next site
StoreCompetitorProducts ==
    /\ sd_pc = "storing"
    /\ LET site   == sd_sites[sd_calls]
           tables == store_products(db_products, db_snapshots,
                                    sd_competitors[site], "today")
       IN  /\ db_products' = tables.products
           /\ db_snapshots' = tables.snapshots
    /\ sd_calls' = sd_calls + 1
    /\ sd_pc' = IF sd_calls = Len(sd_sites) THEN "comparisons" ELSE "storing"
    /\ UNCHANGED <<db_comparisons, sd_farm2bag, sd_sites, sd_competitors, sd_matches>>

\* self.database.store_comparisons(comparison_results, today)
StoreComparisons ==
    /\ sd_pc = "comparisons"
    /\ db_comparisons' = db_comparisons + sd_matches
    /\ sd_pc' = "stored"
    /\ UNCHANGED <<db_products, db_snapshots, sd_farm2bag, sd_sites,
                   sd_competitors, sd_matches, sd_calls>>

StoreData ==
    \/ StoreFarm2bagProducts
    \/ StoreCompetitorProducts
    \/ StoreComparisons

-----------------------------------------------------------------------------
(* Claims about the daily snapshot *)

\* the rows of the products table stored for today
StoredToday == SelectSeq(db_products, LAMBDA row : row.scraped_at = "today")

\* C28: after the runner has stored one pipeline run (store_products once
\* for the reference source and once per competitor source, all with the
\* same date) the daily snapshot row of that date records the total number
\* of products stored for that date and the set of all sites stored.
C28_SnapshotCoversRun ==
    (sd_pc = "stored" /\ StoredToday # <<>>) =>
        /\ "today" \in DOMAIN db_snapshots
        /\ db_snapshots["today"].total_products = Len(StoredToday)
        /\ db_snapshots["today"].sites_scraped
              = {StoredToday[i].site : i \in DOMAIN StoredToday}

-----------------------------------------------------------------------------
(* ScraperService: start_scraping and _run_scraping_pipeline *)

\* ScrapingStatus
PENDING == "pending"
RUNNING == "running"
COMPLETED == "completed"
FAILED == "failed"

\* the most tasks started
MaxTasks == 2

\* result.dict() of the ScrapeResult built for a task. Task ids stand for
\* uuid4 strings, each call drawing one not drawn before; the tasks are
\* numbered in the order they were started, so an id is also a start time.
ResultDocument(task_id, status) ==
    [task_id |-> task_id, status |-> status, started_at |-> task_id]

\* the task information after an update that was reached although the
\* insert before it raised
UpdatedRegardless(tasks, task_id, status, inserted) ==
    Put(tasks, task_id, [status |-> status])

\* self.active_tasks[task_id].update({"status": status, ...}), which is
\* reached only when the awaited insert_one returned
UpdatedAfterInsert(tasks, task_id, status, inserted) ==
    IF inserted THEN Put(tasks, task_id, [status |-> status]) ELSE tasks

\* the collection after insert_one: the document is added when the server
\* wrote it, whether or not the call then returned
AfterInsert(collection, document, written) ==
    IF written THEN Append(collection, document) ELSE collection

ScraperInit ==
    /\ runner \in {"runner", "None"}
    /\ active_tasks = <<>>
    /\ task_pc = <<>>
    /\ scraper_tasks = <<>>
    /\ task_inserts = <<>>
    /\ ss_response = "none"

ScraperIdle ==
    /\ runner = "idle"
    /\ active_tasks = <<>>
    /\ task_pc = <<>>
    /\ scraper_tasks = <<>>
    /\ task_inserts = <<>>
    /\ ss_response = "none"

is_available == runner # "None"

\* start_scraping: the task is recorded as pending and its coroutine is
\* scheduled; nothing of the coroutine runs before the call returns
StartScraping ==
    /\ is_available
    /\ Len(active_tasks) < MaxTasks
    /\ active_tasks' = Append(active_tasks, [status |-> PENDING])
    /\ task_pc' = Append(task_pc, "scheduled")
    /\ ss_response' = PENDING
    /\ UNCHANGED <<runner, scraper_tasks, task_inserts>>

\* start_scraping when the runner could not be built: RuntimeError
StartScrapingUnavailable ==
    /\ ~is_available
    /\ ss_response' = "RuntimeError"
    /\ UNCHANGED <<runner, active_tasks, task_pc, scraper_tasks, task_inserts>>

\* _run_scraping_pipeline up to its first await
BeginPipeline(task_id) ==
    /\ task_pc[task_id] = "scheduled"
    /\ active_tasks' = Put(active_tasks, task_id, [status |-> RUNNING])
    /\ task_pc' = Put(task_pc, task_id, "pipeline")
    /\ UNCHANGED <<runner, scraper_tasks, task_inserts, ss_response>>

\* run_full_pipeline returns and the result is built, or either raises
EndPipeline(task_id) ==
    /\ task_pc[task_id] = "pipeline"
    /\ \E raised \in BOOLEAN :
          task_pc' = Put(task_pc, task_id,
                         IF raised THEN "insert failed" ELSE "insert completed")
    /\ UNCHANGED <<runner, active_tasks, scraper_tasks, task_inserts, ss_response>>

\* await self.db.insert_one(result.dict()) of the try block, then the
\* update of the task; an insert that raises goes to the except block
InsertCompleted(task_id) ==
    /\ task_pc[task_id] = "insert completed"
    /\ \E written \in BOOLEAN, returned \in BOOLEAN :
          LET document == ResultDocument(task_id, COMPLETED)
          IN  /\ scraper_tasks' = AfterInsert(scraper_tasks, document, written)
              /\ task_inserts' = AfterInsert(task_inserts, document, written)
              /\ active_tasks' =
                     UpdatedAfterInsert(active_tasks, task_id, COMPLETED,
                                        written /\ returned)
              /\ task_pc' = Put(task_pc, task_id,
                                IF written /\ returned THEN "done"
                                                       ELSE "insert failed")
    /\ UNCHANGED <<runner, ss_response>>

\* the except block: the failed result is inserted and the task updated;
\* an insert that raises here ends the coroutine with the exception
InsertFailed(task_id) ==
    /\ task_pc[task_id] = "insert failed"
    /\ \E written \in BOOLEAN, returned \in BOOLEAN :
          LET document == ResultDocument(task_id, FAILED)
          IN  /\ scraper_tasks' = AfterInsert(scraper_tasks, document, written)
              /\ task_inserts' = AfterInsert(task_inserts, document, written)
              /\ active_tasks' =
                     UpdatedAfterInsert(active_tasks, task_id, FAILED,
                                        written /\ returned)
              /\ task_pc' = Put(task_pc, task_id,
                                IF written /\ returned THEN "done" ELSE "raised")
    /\ UNCHANGED <<runner, ss_response>>

\* cleanup_old_data: delete_many of the documents started before the cutoff
CleanupOldData ==
    /\ is_available
    /\ \E cutoff \in 1..(MaxTasks + 1) :
          scraper_tasks' =
              SelectSeq(scraper_tasks, LAMBDA doc : ~(doc.started_at < cutoff))
    /\ UNCHANGED <<runner, active_tasks, task_pc, task_inserts, ss_response>>

ScraperStep ==
    \/ StartScraping
    \/ StartScrapingUnavailable
    \/ \E task_id \in DOMAIN active_tasks :
          \/ BeginPipeline(task_id)
          \/ EndPipeline(task_id)
          \/ InsertCompleted(task_id)
          \/ InsertFailed(task_id)
    \/ CleanupOldData

-----------------------------------------------------------------------------
(* Claims about the scraping tasks *)

StatusOf(tasks, task_id) == tasks[task_id].status

\* the moves a task's status may make
StatusMoves ==
    {<<PENDING, RUNNING>>, <<RUNNING, COMPLETED>>, <<RUNNING, FAILED>>}

\* the documents written for a task with its present status
InsertsFor(task_id) ==
    {i \in DOMAIN task_inserts :
        /\ task_inserts[i].task_id = task_id
        /\ task_inserts[i].status = StatusOf(active_tasks, task_id)}

\* a finished task has exactly one inserted document of its status
OneDocumentWhenFinished ==
    \A task_id \in DOMAIN active_tasks :
        StatusOf(active_tasks, task_id) \in {COMPLETED, FAILED}
            => Cardinality(InsertsFor(task_id)) = 1

\* a step keeps every task, changes a status only along StatusMoves, and
\* a task that appears is pending
StatusStep ==
    /\ DOMAIN active_tasks \subseteq DOMAIN active_tasks'
    /\ \A task_id \in DOMAIN active_tasks' :
          IF task_id \in DOMAIN active_tasks
          THEN \/ StatusOf(active_tasks', task_id) = StatusOf(active_tasks, task_id)
               \/ <<StatusOf(active_tasks, task_id), StatusOf(active_tasks', task_id)>>
                      \in StatusMoves
          ELSE StatusOf(active_tasks', task_id) = PENDING

\* C29: a task's in-memory status only ever moves PENDING -> RUNNING ->
\* COMPLETED or FAILED: it is PENDING when start_scraping returns, once
\* COMPLETED or FAILED it never changes again, and whenever it is COMPLETED
\* or FAILED exactly one result document with that task id and the same
\* status has been inserted into the task store.
C29_TaskLifecycle ==
    /\ [](ss_response = PENDING
             => \A task_id \in DOMAIN active_tasks :
                    task_pc[task_id] = "scheduled"
                        => StatusOf(active_tasks, task_id) = PENDING)
    /\ []OneDocumentWhenFinished
    /\ [][StatusStep]_vars

\* one task has completed, and another has failed after the document of
\* its completion was written by an insert that then raised
C29_Witness ==
    /\ Len(active_tasks) = 2
    /\ StatusOf(active_tasks, 1) = COMPLETED
    /\ StatusOf(active_tasks, 2) = FAILED
    /\ \E i \in DOMAIN task_inserts :
          task_inserts[i] = ResultDocument(2, COMPLETED)
    /\ OneDocumentWhenFinished

-----------------------------------------------------------------------------
(* SchedulerService: create_schedule, update_schedule, delete_schedule and
   the reload of the schedules in start() *)

\* the most schedule ids drawn
MaxSchedules == 2

\* the clients whose requests the server may be handling at once
Clients == {"client1", "client2"}

\* a ScheduleRequest: whether it is enabled, and whether a trigger can be
\* built for it (a weekly request with day_of_week null has none:
\* request.day_of_week - 1 raises)
ScheduleRequests == [enabled : BOOLEAN, addable : BOOLEAN]

NoCall == [op |-> "none", id |-> 0, request |-> [enabled |-> FALSE, addable |-> FALSE],
           pc |-> "idle"]

Call(op, id, request, pc) == [op |-> op, id |-> id, request |-> request, pc |-> pc]

InProgress == {client \in Clients : schedule_calls[client] # NoCall}

\* the jobs when a schedule's job is left where it was
JobKept(jobs, schedule_id, request) ==
    IF request.enabled THEN jobs \cup {schedule_id} ELSE jobs

\* update_schedule's work on the scheduler: the job of the schedule is
\* removed, and added again if the request is enabled
JobReplaced(jobs, schedule_id, request) ==
    IF request.enabled THEN jobs \cup {schedule_id} ELSE jobs \ {schedule_id}

\* _load_schedules: a job for every enabled document whose trigger can be
\* built; a document that raises is logged and passed over
LoadedJobs(collection) ==
    {id \in DOMAIN collection :
        collection[id].enabled /\ collection[id].addable}

SchedulerInit ==
    /\ scraper_schedules = <<>>
    /\ scheduler_jobs = {}
    /\ active_schedules = {}
    /\ schedule_calls = [client \in Clients |-> NoCall]
    /\ schedules_created = 0
    /\ calls_overlapped = FALSE
    /\ call_raised = FALSE

SchedulerIdle ==
    /\ scraper_schedules = <<>>
    /\ scheduler_jobs = {}
    /\ active_schedules = {}
    /\ schedule_calls = <<>>
    /\ schedules_created = 0
    /\ calls_overlapped = FALSE
    /\ call_raised = FALSE

\* a client's call begins: it overlaps if another call is in progress
Begins(client, call) ==
    /\ schedule_calls[client] = NoCall
    /\ schedule_calls' = Put(schedule_calls, client, call)
    /\ calls_overlapped' = (calls_overlapped \/ InProgress # {})

Ends(client, raised) ==
    /\ schedule_calls' = Put(schedule_calls, client, NoCall)
    /\ call_raised' = (call_raised \/ raised)

\* create_schedule up to await self.db.insert_one: the id is drawn and the
\* job is added if the request is enabled
CreateSchedule(client, request) ==
    /\ schedules_created < MaxSchedules
    /\ LET schedule_id == schedules_created + 1
       IN  IF request.enabled /\ ~request.addable
           THEN \* _add_job_to_scheduler raises
                /\ Begins(client, NoCall)
                /\ call_raised' = TRUE
                /\ UNCHANGED scheduler_jobs
           ELSE /\ Begins(client, Call("create", schedule_id, request, "insert_one"))
                /\ scheduler_jobs' = JobKept(scheduler_jobs, schedule_id, request)
                /\ UNCHANGED call_raised
    /\ schedules_created' = schedules_created + 1
    /\ UNCHANGED <<scraper_schedules, active_schedules>>

\* insert_one returns and the document is kept in memory, or it raises
CreateInsert(client) ==
    LET call == schedule_calls[client]
    IN  /\ call.op = "create" /\ call.pc = "insert_one"
        /\ \E raised \in BOOLEAN :
              /\ Ends(client, raised)
              /\ IF raised
                 THEN UNCHANGED <<scraper_schedules, active_schedules>>
                 ELSE /\ scraper_schedules' =
                             Put(scraper_schedules, call.id, call.request)
                      /\ active_schedules' = active_schedules \cup {call.id}
        /\ UNCHANGED <<scheduler_jobs, schedules_created, calls_overlapped>>

\* update_schedule from the answer of find_one up to await update_one
UpdateSchedule(client, schedule_id, request) ==
    /\ IF schedule_id \notin DOMAIN scraper_schedules
       THEN \* return None
            /\ Begins(client, NoCall)
            /\ UNCHANGED <<scheduler_jobs, call_raised>>
       ELSE IF request.enabled /\ ~request.addable
       THEN \* the job is removed, then _add_job_to_scheduler raises
            /\ Begins(client, NoCall)
            /\ scheduler_jobs' = scheduler_jobs \ {schedule_id}
            /\ call_raised' = TRUE
       ELSE /\ Begins(client, Call("update", schedule_id, request, "update_one"))
            /\ scheduler_jobs' = JobReplaced(scheduler_jobs, schedule_id, request)
            /\ UNCHANGED call_raised
    /\ UNCHANGED <<scraper_schedules, active_schedules, schedules_created>>

\* update_one sets the fields of the document if it is still there, or raises
UpdateWrite(client) ==
    LET call == schedule_calls[client]
    IN  /\ call.op = "update" /\ call.pc = "update_one"
        /\ \E raised \in BOOLEAN :
              IF raised
              THEN /\ Ends(client, TRUE)
                   /\ UNCHANGED scraper_schedules
              ELSE /\ schedule_calls' =
                          Put(schedule_calls, client,
                              Call("update", call.id, call.request, "get_schedule"))
                   /\ scraper_schedules' =
                          IF call.id \in DOMAIN scraper_schedules
                          THEN Put(scraper_schedules, call.id, call.request)
                          ELSE scraper_schedules
                   /\ UNCHANGED call_raised
        /\ UNCHANGED <<scheduler_jobs, active_schedules, schedules_created,
                       calls_overlapped>>

\* return await self.get_schedule(schedule_id)
UpdateReturn(client) ==
    LET call == schedule_calls[client]
    IN  /\ call.op = "update" /\ call.pc = "get_schedule"
        /\ Ends(client, FALSE)
        /\ UNCHANGED <<scraper_schedules, scheduler_jobs, active_schedules,
                       schedules_created, calls_overlapped>>

\* delete_schedule up to await self.db.delete_one
DeleteSchedule(client, schedule_id) ==
    /\ Begins(client, Call("delete", schedule_id, NoCall.request, "delete_one"))
    /\ scheduler_jobs' = scheduler_jobs \ {schedule_id}
    /\ UNCHANGED <<scraper_schedules, active_schedules, schedules_created,
                   call_raised>>

\* delete_one returns and the schedule is dropped from memory, or it raises
DeleteWrite(client) ==
    LET call == schedule_calls[client]
    IN  /\ call.op = "delete" /\ call.pc = "delete_one"
        /\ \E raised \in BOOLEAN :
              /\ Ends(client, raised)
              /\ IF raised
                 THEN UNCHANGED <<scraper_schedules, active_schedules>>
                 ELSE /\ scraper_schedules' = Without(scraper_schedules, {call.id})
                      /\ active_schedules' = active_schedules \ {call.id}
        /\ UNCHANGED <<scheduler_jobs, schedules_created, calls_overlapped>>

\* the server is started again: a new SchedulerService with an empty
\* scheduler, start() loads the enabled schedules and creates the default
\* schedule when the collection is empty. Calls in progress are lost.
Restart ==
    /\ scraper_schedules = <<>> => schedules_created < MaxSchedules
    /\ LET default_schedule == [enabled |-> TRUE, addable |-> TRUE]
           schedule_id == schedules_created + 1
       IN  IF scraper_schedules = <<>>
           THEN /\ scraper_schedules' = Put(<<>>, schedule_id, default_schedule)
                /\ scheduler_jobs' = {schedule_id}
                /\ active_schedules' = {schedule_id}
                /\ schedules_created' = schedules_created + 1
           ELSE /\ scheduler_jobs' = LoadedJobs(scraper_schedules)
                /\ active_schedules' = LoadedJobs(scraper_schedules)
                /\ UNCHANGED <<scraper_schedules, schedules_created>>
    /\ schedule_calls' = [client \in Clients |-> NoCall]
    /\ calls_overlapped' = FALSE
    /\ call_raised' = FALSE

SchedulerStep ==
    \/ \E client \in Clients :
          \/ \E request \in ScheduleRequests : CreateSchedule(client, request)
          \/ CreateInsert(client)
          \/ \E schedule_id \in 1..MaxSchedules, request \in ScheduleRequests :
                UpdateSchedule(client, schedule_id, request)
          \/ UpdateWrite(client)
          \/ UpdateReturn(client)
          \/ \E schedule_id \in 1..MaxSchedules : DeleteSchedule(client, schedule_id)
          \/ DeleteWrite(client)
    \/ Restart

-----------------------------------------------------------------------------
(* Claims about the schedules *)

\* the schedules whose document is in the collection and is enabled
EnabledSchedules ==
    {id \in DOMAIN scraper_schedules : scraper_schedules[id].enabled}

\* every call made since the service was started has returned, and the
\* calls were made one after another
CallsCompletedInSequence ==
    /\ InProgress = {}
    /\ ~calls_overlapped
    /\ ~call_raised

\* C30: after any sequence of completed create_schedule, update_schedule and
\* delete_schedule calls, optionally followed by a restart that reloads the
\* schedules in start(), a job is registered in the scheduler for a schedule
\* id if and only if a schedule document with that id is in the store and
\* is enabled.
C30_JobIffEnabledDocument ==
    CallsCompletedInSequence => scheduler_jobs = EnabledSchedules

\* an enabled schedule with its job beside a disabled one without, the
\* second having lost its job in an update
C30_Witness ==
    /\ CallsCompletedInSequence
    /\ schedules_created = 2
    /\ DOMAIN scraper_schedules = {1, 2}
    /\ scraper_schedules[1].enabled
    /\ ~scraper_schedules[2].enabled
    /\ 2 \in active_schedules
    /\ scheduler_jobs = {1}

-----------------------------------------------------------------------------
(* Specifications: one operation, called once on inputs drawn from the pools *)

InitMatcher ==
    /\ MatcherInit
    /\ DifferIdle
    /\ StatisticsIdle
    /\ CompareIdle
    /\ ShardedIdle
    /\ FloatStatisticsIdle
    /\ PricingIdle
    /\ NormalizerIdle
    /\ FieldIdle
    /\ StoreIdle
    /\ ScraperIdle
    /\ SchedulerIdle

NextMatcher ==
    FindMatches
        /\ UNCHANGED <<differVars, statisticsVars, compareVars, shardedVars,
                       floatStatisticsVars, pricingVars, normalizerVars,
                       fieldVars, storeVars, scraperVars, schedulerVars>>

SpecMatcher == InitMatcher /\ [][NextMatcher]_vars

InitDiffer ==
    /\ DifferInit
    /\ MatcherIdle
    /\ StatisticsIdle
    /\ CompareIdle
    /\ ShardedIdle
    /\ FloatStatisticsIdle
    /\ PricingIdle
    /\ NormalizerIdle
    /\ FieldIdle
    /\ StoreIdle
    /\ ScraperIdle
    /\ SchedulerIdle

NextDiffer ==
    CalculatePriceDifference
        /\ UNCHANGED <<matcherVars, statisticsVars, compareVars,
                       shardedVars, floatStatisticsVars, pricingVars,
                       normalizerVars, fieldVars, storeVars, scraperVars,
                       schedulerVars>>

SpecDiffer == InitDiffer /\ [][NextDiffer]_vars

InitStatistics ==
    /\ StatisticsInit
    /\ MatcherIdle
    /\ DifferIdle
    /\ CompareIdle
    /\ ShardedIdle
    /\ FloatStatisticsIdle
    /\ PricingIdle
    /\ NormalizerIdle
    /\ FieldIdle
    /\ StoreIdle
    /\ ScraperIdle
    /\ SchedulerIdle

NextStatistics ==
    CalculateStatistics
        /\ UNCHANGED <<matcherVars, differVars, compareVars, shardedVars,
                       floatStatisticsVars, pricingVars, normalizerVars,
                       fieldVars, storeVars, scraperVars, schedulerVars>>

SpecStatistics == InitStatistics /\ [][NextStatistics]_vars

InitCompare ==
    /\ CompareInit
    /\ MatcherIdle
    /\ DifferIdle
    /\ StatisticsIdle
    /\ ShardedIdle
    /\ FloatStatisticsIdle
    /\ PricingIdle
    /\ NormalizerIdle
    /\ FieldIdle
    /\ StoreIdle
    /\ ScraperIdle
    /\ SchedulerIdle

NextCompare ==
    CompareProducts
        /\ UNCHANGED <<matcherVars, differVars, statisticsVars, shardedVars,
                       floatStatisticsVars, pricingVars, normalizerVars,
                       fieldVars, storeVars, scraperVars, schedulerVars>>

SpecCompare == InitCompare /\ [][NextCompare]_vars

InitSharded ==
    /\ ShardedInit
    /\ MatcherIdle
    /\ DifferIdle
    /\ StatisticsIdle
    /\ FloatStatisticsIdle
    /\ PricingIdle
    /\ NormalizerIdle
    /\ FieldIdle
    /\ StoreIdle
    /\ ScraperIdle
    /\ SchedulerIdle

NextSharded ==
    Sharded
        /\ UNCHANGED <<matcherVars, differVars, statisticsVars,
                       floatStatisticsVars, pricingVars, normalizerVars,
                       fieldVars, storeVars, scraperVars, schedulerVars>>

SpecSharded == InitSharded /\ [][NextSharded]_vars

InitFloatStatistics ==
    /\ FloatStatisticsInit
    /\ MatcherIdle
    /\ DifferIdle
    /\ StatisticsIdle
    /\ CompareIdle
    /\ ShardedIdle
    /\ PricingIdle
    /\ NormalizerIdle
    /\ FieldIdle
    /\ StoreIdle
    /\ ScraperIdle
    /\ SchedulerIdle

NextFloatStatistics ==
    CalculateFloatStatistics
        /\ UNCHANGED <<matcherVars, differVars, statisticsVars, compareVars,
                       shardedVars, pricingVars, normalizerVars, fieldVars,
                       storeVars, scraperVars, schedulerVars>>

SpecFloatStatistics == InitFloatStatistics /\ [][NextFloatStatistics]_vars

InitPricing ==
    /\ PricingInit
    /\ MatcherIdle
    /\ DifferIdle
    /\ StatisticsIdle
    /\ CompareIdle
    /\ ShardedIdle
    /\ FloatStatisticsIdle
    /\ NormalizerIdle
    /\ FieldIdle
    /\ StoreIdle
    /\ ScraperIdle
    /\ SchedulerIdle

NextPricing ==
    AnalyzePricing
        /\ UNCHANGED <<matcherVars, differVars, statisticsVars, compareVars,
                       shardedVars, floatStatisticsVars, normalizerVars,
                       fieldVars, storeVars, scraperVars, schedulerVars>>

SpecPricing == InitPricing /\ [][NextPricing]_vars

InitField ==
    /\ FieldInit
    /\ MatcherIdle
    /\ DifferIdle
    /\ StatisticsIdle
    /\ CompareIdle
    /\ ShardedIdle
    /\ FloatStatisticsIdle
    /\ PricingIdle
    /\ NormalizerIdle
    /\ StoreIdle
    /\ ScraperIdle
    /\ SchedulerIdle

NextField ==
    NormalizeField
        /\ UNCHANGED <<matcherVars, differVars, statisticsVars, compareVars,
                       shardedVars, floatStatisticsVars, pricingVars,
                       normalizerVars, storeVars, scraperVars, schedulerVars>>

SpecField == InitField /\ [][NextField]_vars

InitStore ==
    /\ StoreInit
    /\ MatcherIdle
    /\ DifferIdle
    /\ StatisticsIdle
    /\ CompareIdle
    /\ ShardedIdle
    /\ FloatStatisticsIdle
    /\ PricingIdle
    /\ NormalizerIdle
    /\ FieldIdle
    /\ ScraperIdle
    /\ SchedulerIdle

NextStore ==
    StoreData
        /\ UNCHANGED <<matcherVars, differVars, statisticsVars, compareVars,
                       shardedVars, floatStatisticsVars, pricingVars,
                       normalizerVars, fieldVars, scraperVars, schedulerVars>>

SpecStore == InitStore /\ [][NextStore]_vars

InitScraper ==
    /\ ScraperInit
    /\ MatcherIdle
    /\ DifferIdle
    /\ StatisticsIdle
    /\ CompareIdle
    /\ ShardedIdle
    /\ FloatStatisticsIdle
    /\ PricingIdle
    /\ NormalizerIdle
    /\ FieldIdle
    /\ StoreIdle
    /\ SchedulerIdle

NextScraper ==
    ScraperStep
        /\ UNCHANGED <<matcherVars, differVars, statisticsVars, compareVars,
                       shardedVars, floatStatisticsVars, pricingVars,
                       normalizerVars, fieldVars, storeVars, schedulerVars>>

SpecScraper == InitScraper /\ [][NextScraper]_vars

InitScheduler ==
    /\ SchedulerInit
    /\ MatcherIdle
    /\ DifferIdle
    /\ StatisticsIdle
    /\ CompareIdle
    /\ ShardedIdle
    /\ FloatStatisticsIdle
    /\ PricingIdle
    /\ NormalizerIdle
    /\ FieldIdle
    /\ StoreIdle
    /\ ScraperIdle

NextScheduler ==
    SchedulerStep
        /\ UNCHANGED <<matcherVars, differVars, statisticsVars, compareVars,
                       shardedVars, floatStatisticsVars, pricingVars,
                       normalizerVars, fieldVars, storeVars, scraperVars>>

SpecScheduler == InitScheduler /\ [][NextScheduler]_vars

InitNormalize ==
    /\ rules \in RuleSets /\ NormalizeInit /\ BatchIdle
    /\ MatcherIdle
    /\ DifferIdle
    /\ StatisticsIdle
    /\ CompareIdle
    /\ ShardedIdle
    /\ FloatStatisticsIdle
    /\ PricingIdle
    /\ FieldIdle
    /\ StoreIdle
    /\ ScraperIdle
    /\ SchedulerIdle

NextNormalize ==
    NormalizeProduct
        /\ UNCHANGED <<matcherVars, differVars, statisticsVars, compareVars,
                       shardedVars, floatStatisticsVars, pricingVars,
                       fieldVars, storeVars, scraperVars, schedulerVars>>

SpecNormalize == InitNormalize /\ [][NextNormalize]_vars

InitBatch ==
    /\ rules \in RuleSets /\ NormalizeIdle /\ BatchInit
    /\ MatcherIdle
    /\ DifferIdle
    /\ StatisticsIdle
    /\ CompareIdle
    /\ ShardedIdle
    /\ FloatStatisticsIdle
    /\ PricingIdle
    /\ FieldIdle
    /\ StoreIdle
    /\ ScraperIdle
    /\ SchedulerIdle

NextBatch ==
    NormalizeBatch
        /\ UNCHANGED <<matcherVars, differVars, statisticsVars, compareVars,
                       shardedVars, floatStatisticsVars, pricingVars,
                       fieldVars, storeVars, scraperVars, schedulerVars>>

SpecBatch == InitBatch /\ [][NextBatch]_vars

====
